---- MODULE Spec2Model ----
(***************************************************************************)
(* Verification model of the AnswerRocket MCP server: the dynamic tool     *)
(* registration handlers (mcp_server/server.py, mcp_server/modes/remote.py,*)
(* mcp_server/tool_registry.py) and the skill tool callable                *)
(* (mcp_server/utils/tool.py).                                             *)
(***************************************************************************)
EXTENDS Integers, Sequences, FiniteSets, TLC

\* ------------------------------------------------------------------------
\* Bounds
\* ------------------------------------------------------------------------
MaxSkills == 2            \* longest copilot_skill_ids list
MaxUpstreamChanges == 1   \* upstream edits of a copilot in one behaviour

\* ------------------------------------------------------------------------
\* Universe of the listing model
\* ------------------------------------------------------------------------
Tenants == {"A", "B"}
NoTenant == "none"
Skills == {"s1", "s2", "s3"}
None == "None"
Calls == {1, 2}
Impls == {"server", "remote", "registry"}

\* the upstream skill whose scheduling_only attribute is set
scheduling_only(s) == s = "s3"

Range(q) == {q[i] : i \in 1..Len(q)}

\* one upstream edit: a skill is removed from, or appended to, the id list
RemoveAt(q, i) == [j \in 1..(Len(q) - 1) |-> IF j < i THEN q[j] ELSE q[j + 1]]
UpstreamEdits(q) ==
    {RemoveAt(q, i) : i \in 1..Len(q)}
    \cup {Append(q, s) : s \in {x \in Skills : Len(q) < MaxSkills /\ x \notin Range(q)}}

\* SkillConfig.is_scheduling_only: the scheduling_only attribute of the skill
is_scheduling_only(s) == scheduling_only(s)

\* annotations that copy the flag instead of negating it
create_tool_annotations_flag_copied(s) ==
    [readOnlyHint |-> is_scheduling_only(s), destructiveHint |-> FALSE,
     idempotentHint |-> TRUE, openWorldHint |-> TRUE]

\* ToolFactory.create_tool_annotations
create_tool_annotations(s) ==
    [readOnlyHint |-> ~is_scheduling_only(s), destructiveHint |-> FALSE,
     idempotentHint |-> TRUE, openWorldHint |-> TRUE]

\* a registered tool: add_tool(fn, name, description, annotations)
Tool(name, tenant) ==
    [name |-> name, tenant |-> tenant, annotations |-> create_tool_annotations(name)]
ToolNames(reg) == {t.name : t \in reg}

VARIABLES
    impl,        \* which dynamic_list_tools handler is installed
    copilots,    \* upstream: tenant -> copilot_skill_ids
    nchg,        \* upstream edits so far
    registry,    \* mcp._tool_manager._tools
    pc,          \* per listing call: idle / fetching / done / raised
    req,         \* per listing call: the request context being served
    ids,         \* per listing call: the skill ids whose metadata is fetched
    pending,     \* per listing call: fetch_skill_info tasks still in flight
    infos,       \* per listing call: fetch results (index -> skill or None)
    built,       \* per listing call: the skill configs built in the cycle
    result,      \* per listing call: the listing returned to the caller
    trace,       \* per listing call: the events of the cycle in program order
    overlap      \* per listing call: another call ran while this one was suspended

listVars == <<impl, copilots, nchg, registry, pc, req, ids, pending, infos,
              built, result, trace, overlap>>

VARIABLES
    tpc,          \* position of the invocation in skill_tool_function
    params,       \* skill_config.parameters of the tool being invoked
    kwargs,       \* the caller's arguments: name -> value, None or Absent
    tctx,         \* the invocation context: credential, probe, bound and path ids
    processed,    \* processed_params
    notices,      \* notices delivered to the context, in order
    remoteCalls,  \* ar_client.skill.run calls issued
    sres,         \* skill_result
    cause,        \* the exception being handled, if any
    tresult       \* what the invocation returned or raised

\* ArgumentValidator.validate_skill_arguments, called on its own
VARIABLES
    vparams,      \* skill_config.parameters handed to the validator
    vargs,        \* args handed to the validator
    validated     \* what the validator returned or raised

valVars == <<vparams, vargs, validated>>

\* building the tool contract of one skill
VARIABLES
    declared,     \* skill.parameters as the upstream platform declares them
    extractor,    \* which extract_skill_parameters built the config
    contract      \* the parameters of the tool's signature, after context

contractVars == <<declared, extractor, contract>>

\* single-tenant and multi-tenant startup (__main__.py, server.py)
VARIABLES
    spc,          \* position of the startup sequence
    senv,         \* the environment the process was launched in
    scopilot,     \* self.copilot
    stools,       \* names of the tools registered at startup
    sexit,        \* exit status ("exit_1"), "none" while the process lives
    sfail,        \* the startup step that ended the process
    slisted,      \* the last listing returned in the static regime
    slast,        \* the last request served in the static regime
    sbatch        \* the skill configs of the startup batch and those whose
                  \* registration raised

startVars == <<spc, senv, scopilot, stools, sexit, sfail, slisted, slast, sbatch>>

\* clients built in multi-tenant mode (listing cycle and tool invocation)
VARIABLES
    tool_ar_url,  \* ar_url captured by the registered tool callables
    lreq,         \* the listing request served last
    lclient,      \* the client its metadata fetch went through
    lfetched,     \* a metadata fetch was issued for it
    ireq,         \* the tool invocation request served last
    iclient,      \* the client the invocation built
    iran          \* skill.run was issued for it

clientVars == <<tool_ar_url, lreq, lclient, lfetched, ireq, iclient, iran>>

\* RequestContextExtractor and the skill id normalisation, called on their own
VARIABLES
    epc,          \* which extraction has run
    bctx,         \* the context handed to extract_bearer_token
    btoken,       \* what extract_bearer_token returned
    upath,        \* the request path handed to extract_copilot_id
    ucopilot,     \* what extract_copilot_id returned
    nfield,       \* copilot.copilot_skill_ids handed to build_skill_configs_async
    nfetched,     \* the skill ids a fetch was issued for, in order
    nbuilt        \* the skill configs build_skill_configs_async returned

extractVars == <<epc, bctx, btoken, upath, ucopilot, nfield, nfetched, nbuilt>>

\* the delayed 'tools changed' notification of modes/remote.py
VARIABLES
    rpc,          \* position of the listing request: "idle" or "returned"
    rres,         \* what the last listing request got
    rsleeping,    \* refresh tasks scheduled and not yet run
    rnotified     \* how the last refresh task ended

refreshVars == <<rpc, rres, rsleeping, rnotified>>

\* IntrospectionTokenVerifier.verify_token (auth/token_verifier.py)
VARIABLES
    introspection, \* the verifier's configuration and the endpoint's answer
    access         \* what verify_token returned

verifyVars == <<introspection, access>>

\* CursesCopilotSelector (scripts/select_copilots_interactive.py)
VARIABLES
    copilot_count, \* len(self.copilots); copilot i has index i, from 0
    state,         \* self.state, the DropdownState
    returned       \* what run_curses returned, and from which screen

selectorVars == <<copilot_count, state, returned>>

auxVars == <<verifyVars, selectorVars>>

moreVars == <<clientVars, extractVars, refreshVars, auxVars>>

restVars == <<valVars, contractVars, startVars, moreVars>>

toolVars == <<tpc, params, kwargs, tctx, processed, notices, remoteCalls, sres,
              cause, tresult, restVars>>

vars == <<listVars, toolVars>>

NoReq == [tenant |-> NoTenant, token |-> FALSE]
Requests == [tenant : Tenants \cup {NoTenant}, token : BOOLEAN]

\* ------------------------------------------------------------------------
\* Operations on the tool table.  A run is the pair of the tool table and
\* the events the handler has performed so far, in program order.
\* ------------------------------------------------------------------------
Run(reg, tr) == [reg |-> reg, tr |-> tr]
Ev(st, e) == [st EXCEPT !.tr = Append(@, e)]

\* RequestContextExtractor.extract_copilot_id: the request carries the path;
\* the model keeps the extracted component (NoTenant when "/agent/" is absent).
extract_copilot_id(r) == r.tenant

\* ClientManager.create_client_from_context: a client iff a bearer token or a
\* fallback token is available.
create_client_from_context(r, fallback) == r.token \/ fallback

\* mcp.add_tool: the tool manager keeps an already registered name.
add_tool(st, name, tenant) ==
    Ev([st EXCEPT !.reg = IF name \in ToolNames(@) THEN @ ELSE @ \cup {Tool(name, tenant)}],
       "add")

\* a handler that forgets to empty the tool table
clear_tools_skipped(st) == Ev(st, "clear")

\* self.mcp._tool_manager._tools.clear()
clear_tools(st) == Ev([st EXCEPT !.reg = {}], "clear")

\* original_list_tools(): the listing is the tool table at that moment
list_tools(st) == Ev(st, "list")

\* a builder that forgets the scheduling_only test
build_skill_configs_unfiltered(gathered) ==
    SelectSeq(gathered, LAMBDA s : s # None)

\* SkillService.build_skill_configs_async, the part after the gather: keep the
\* fetched skills that are not scheduling-only, in the order of the ids.
build_skill_configs(gathered) ==
    SelectSeq(gathered, LAMBDA s : s # None /\ ~scheduling_only(s))

\* SkillService.fetch_hydrated_reports: the skills of the copilot that were
\* fetched and are not scheduling-only.
fetch_hydrated_reports(gathered) ==
    SelectSeq(gathered, LAMBDA s : s # None /\ ~scheduling_only(s))

\* a loop without try/except: the first failure ends the batch
register_skills_until_failure(st, configs, tenant, bad) ==
    LET firstbad == {i \in DOMAIN configs : configs[i] \in bad}
        n == IF firstbad = {} THEN Len(configs)
             ELSE (CHOOSE i \in firstbad : \A j \in firstbad : i <= j) - 1
    IN  [st EXCEPT !.reg = @ \cup {Tool(configs[i], tenant) : i \in 1..n},
                   !.tr = @ \o [i \in 1..n |-> "add"]]

\* ToolRegistry.register_skills / the for loop of server.dynamic_list_tools:
\* each skill is added inside its own try/except; a failing one is skipped.
RECURSIVE register_skills(_, _, _, _)
register_skills(st, configs, tenant, bad) ==
    IF configs = <<>> THEN st
    ELSE LET s == Head(configs)
             nxt == IF s \in bad THEN st ELSE add_tool(st, s, tenant)
         IN  register_skills(nxt, Tail(configs), tenant, bad)

\* the metadata a fetch returns for each id: the skill, or None when it failed
Gathered(idlist, failed) ==
    [i \in 1..Len(idlist) |-> IF idlist[i] \in failed THEN None ELSE idlist[i]]

Outcome(st, out, gathered, configs) ==
    [reg |-> st.reg, tr |-> st.tr, out |-> out, infos |-> gathered, built |-> configs]

\* RemoteMode._register_copilot_tools / ToolRegistry._register_dynamic_tools:
\* client from the context, fetch, register.  notfound: the copilot id does
\* not resolve and the fetch raises.
register_copilot_tools(st, r, idlist, failed, bad, notfound) ==
    IF ~create_client_from_context(r, FALSE)
    THEN Outcome(st, "done", <<>>, <<>>)
    ELSE IF notfound
    THEN Outcome(Ev(st, "fetch"), "raised", <<>>, <<>>)
    ELSE LET gathered == Gathered(idlist, failed)
             configs == fetch_hydrated_reports(gathered)
         IN  Outcome(register_skills(Ev(st, "fetch"), configs, r.tenant, bad),
                     "done", gathered, configs)

Listed(o) == IF o.out = "done" THEN [o EXCEPT !.tr = Append(@, "list")] ELSE o

\* a handler that rebuilds first and clears afterwards
remote_dynamic_list_tools_late_clear(st, r, idlist, failed, bad, notfound) ==
    LET st1 == Ev(st, "resolve")
        o == register_copilot_tools(st1, r, idlist, failed, bad, notfound)
    IN  IF extract_copilot_id(r) = NoTenant
        THEN Listed(Outcome(st1, "done", <<>>, <<>>))
        ELSE Listed([o EXCEPT !.reg = {}, !.tr = Append(@, "clear")])

\* modes/remote.py dynamic_list_tools
remote_dynamic_list_tools(st, r, idlist, failed, bad, notfound) ==
    LET st1 == Ev(st, "resolve")
    IN  IF extract_copilot_id(r) = NoTenant
        THEN Listed(Outcome(st1, "done", <<>>, <<>>))
        ELSE Listed(register_copilot_tools(clear_tools(st1), r, idlist, failed, bad, notfound))

\* tool_registry.py setup_dynamic_registration.dynamic_list_tools
registry_dynamic_list_tools(st, r, idlist, failed, bad, notfound) ==
    LET st1 == Ev(clear_tools(st), "resolve")
    IN  IF extract_copilot_id(r) = NoTenant
        THEN Listed(Outcome(st1, "done", <<>>, <<>>))
        ELSE Listed(register_copilot_tools(st1, r, idlist, failed, bad, notfound))

\* server.py dynamic_list_tools up to the await of the gather; found: the
\* copilot lookup succeeded.  The call suspends only when there are fetches.
server_dynamic_list_tools(st, r, idlist, found) ==
    LET st1 == clear_tools(Ev(st, "resolve"))
    IN  IF extract_copilot_id(r) = NoTenant
        THEN Listed(Outcome(st1, "done", <<>>, <<>>))
        ELSE IF ~(create_client_from_context(r, FALSE) /\ found)
        THEN Listed(Outcome(st1, "done", <<>>, <<>>))
        ELSE IF idlist = <<>>
        THEN Listed(Outcome(Ev(st1, "fetch"), "done", <<>>, <<>>))
        ELSE Outcome(Ev(st1, "fetch"), "fetching", [i \in 1..Len(idlist) |-> None], <<>>)

\* a gather whose first failed task abandons the whole build
server_resume_all_or_nothing(st, tenant, gathered, bad) ==
    LET configs == IF \E i \in DOMAIN gathered : gathered[i] = None
                   THEN <<>> ELSE build_skill_configs(gathered)
    IN  Listed(Outcome(register_skills(st, configs, tenant, bad), "done", gathered, configs))

\* server.py dynamic_list_tools after the gather
server_resume(st, tenant, gathered, bad) ==
    LET configs == build_skill_configs(gathered)
    IN  Listed(Outcome(register_skills(st, configs, tenant, bad), "done", gathered, configs))

\* the request is served by the first free slot
FreeSlot(c) == pc[c] = "idle" /\ \A d \in Calls : pc[d] = "idle" => c <= d

\* every other call that is suspended at its gather sees this call run
MarkOverlap(c) ==
    LET others == {d \in Calls \ {c} : pc[d] = "fetching"}
    IN  [d \in Calls |->
            IF d \in others THEN TRUE
            ELSE IF d = c THEN (others # {} \/ (pc[c] = "fetching" /\ overlap[c]))
            ELSE overlap[d]]

\* ------------------------------------------------------------------------
\* Initial state
\* ------------------------------------------------------------------------
InitList ==
    /\ impl \in Impls
    /\ copilots = [t \in Tenants |-> IF t = "A" THEN <<"s1", "s3">> ELSE <<"s2">>]
    /\ nchg = 0
    /\ registry = {}
    /\ pc = [c \in Calls |-> "idle"]
    /\ req = [c \in Calls |-> NoReq]
    /\ ids = [c \in Calls |-> <<>>]
    /\ pending = [c \in Calls |-> {}]
    /\ infos = [c \in Calls |-> <<>>]
    /\ built = [c \in Calls |-> <<>>]
    /\ result = [c \in Calls |-> {}]
    /\ trace = [c \in Calls |-> <<>>]
    /\ overlap = [c \in Calls |-> FALSE]

\* ------------------------------------------------------------------------
\* Listing actions
\* ------------------------------------------------------------------------

\* The handler segment of call c ran and left outcome o.
Apply(c, r, idlist, o) ==
    /\ registry' = o.reg
    /\ pc' = [pc EXCEPT ![c] = o.out]
    /\ req' = [req EXCEPT ![c] = r]
    /\ ids' = [ids EXCEPT ![c] = IF o.infos = <<>> THEN <<>> ELSE idlist]
    /\ pending' = [pending EXCEPT ![c] = IF o.out = "fetching" THEN 1..Len(idlist) ELSE {}]
    /\ infos' = [infos EXCEPT ![c] = o.infos]
    /\ built' = [built EXCEPT ![c] = o.built]
    /\ result' = [result EXCEPT ![c] = IF o.out = "done" THEN o.reg ELSE {}]
    /\ trace' = [trace EXCEPT ![c] = o.tr]
    /\ overlap' = MarkOverlap(c)
    /\ UNCHANGED <<impl, copilots, nchg, toolVars>>

\* a handler that remembers the skill ids an earlier call saw for the tenant
ListIds_cached(r) ==
    LET seen == {d \in Calls : req[d].tenant = r.tenant /\ ids[d] # <<>>}
    IN  IF r.tenant \notin Tenants THEN <<>>
        ELSE IF seen # {} THEN ids[CHOOSE d \in seen : TRUE]
        ELSE copilots[r.tenant]

\* copilot.copilot_skill_ids as the upstream platform reports it to this call
ListIds(r) == IF r.tenant \in Tenants THEN copilots[r.tenant] ELSE <<>>

ServerListTools(c) ==
    /\ impl = "server"
    /\ FreeSlot(c)
    /\ \E r \in Requests, found \in BOOLEAN :
         Apply(c, r, ListIds(r),
               server_dynamic_list_tools(Run(registry, <<>>), r, ListIds(r), found))

\* SkillService.fetch_skill_info: one task of the gather completes, with the
\* skill or with None when the upstream call raised.
FetchSkillInfo(c) ==
    /\ pc[c] = "fetching"
    /\ \E i \in pending[c], ok \in BOOLEAN :
         /\ pending' = [pending EXCEPT ![c] = @ \ {i}]
         /\ infos' = [infos EXCEPT ![c][i] = IF ok THEN ids[c][i] ELSE None]
    /\ UNCHANGED <<impl, copilots, nchg, registry, pc, req, ids, built, result,
                   trace, overlap, toolVars>>

\* a join that goes on as soon as one fetch has completed
ServerResume_first_completed(c) ==
    /\ pc[c] = "fetching"
    /\ pending[c] # 1..Len(ids[c])
    /\ \E bad \in SUBSET Range(ids[c]) :
         Apply(c, req[c], ids[c],
               server_resume(Run(registry, trace[c]), req[c].tenant, infos[c], bad))

\* the gather has joined every fetch: the handler goes on
ServerResume(c) ==
    /\ pc[c] = "fetching"
    /\ pending[c] = {}
    /\ \E bad \in SUBSET Range(ids[c]) :
         Apply(c, req[c], ids[c],
               server_resume(Run(registry, trace[c]), req[c].tenant, infos[c], bad))

RemoteListTools(c) ==
    /\ impl = "remote"
    /\ FreeSlot(c)
    /\ \E r \in Requests, notfound \in BOOLEAN :
         \E failed \in SUBSET Range(ListIds(r)), bad \in SUBSET Range(ListIds(r)) :
            Apply(c, r, ListIds(r),
                  remote_dynamic_list_tools(Run(registry, <<>>), r, ListIds(r),
                                            failed, bad, notfound))

RegistryListTools(c) ==
    /\ impl = "registry"
    /\ FreeSlot(c)
    /\ \E r \in Requests, notfound \in BOOLEAN :
         \E failed \in SUBSET Range(ListIds(r)), bad \in SUBSET Range(ListIds(r)) :
            Apply(c, r, ListIds(r),
                  registry_dynamic_list_tools(Run(registry, <<>>), r, ListIds(r),
                                              failed, bad, notfound))

\* The response has been delivered; the slot serves the next request.
Deliver(c) ==
    /\ pc[c] \in {"done", "raised"}
    /\ pc' = [pc EXCEPT ![c] = "idle"]
    /\ req' = [req EXCEPT ![c] = NoReq]
    /\ ids' = [ids EXCEPT ![c] = <<>>]
    /\ infos' = [infos EXCEPT ![c] = <<>>]
    /\ built' = [built EXCEPT ![c] = <<>>]
    /\ result' = [result EXCEPT ![c] = {}]
    /\ trace' = [trace EXCEPT ![c] = <<>>]
    /\ overlap' = [overlap EXCEPT ![c] = FALSE]
    /\ UNCHANGED <<impl, copilots, nchg, registry, pending, toolVars>>

\* The upstream platform edits a copilot's skill list between two calls.
UpstreamChange ==
    /\ nchg < MaxUpstreamChanges
    /\ \E t \in Tenants : \E q \in UpstreamEdits(copilots[t]) :
         copilots' = [copilots EXCEPT ![t] = q]
    /\ nchg' = nchg + 1
    /\ UNCHANGED <<impl, registry, pc, req, ids, pending, infos, built, result,
                   trace, overlap, toolVars>>

Next ==
    \/ \E c \in Calls : ServerListTools(c)
    \/ \E c \in Calls : FetchSkillInfo(c)
    \/ \E c \in Calls : ServerResume(c)
    \/ \E c \in Calls : RemoteListTools(c)
    \/ \E c \in Calls : RegistryListTools(c)
    \/ \E c \in Calls : Deliver(c)
    \/ UpstreamChange

\* the listing calls alone, the upstream skill lists staying as they are
NextCycle ==
    \/ \E c \in Calls : ServerListTools(c)
    \/ \E c \in Calls : FetchSkillInfo(c)
    \/ \E c \in Calls : ServerResume(c)
    \/ \E c \in Calls : RemoteListTools(c)
    \/ \E c \in Calls : RegistryListTools(c)
    \/ \E c \in Calls : Deliver(c)

\* ------------------------------------------------------------------------
\* The skill tool callable (ToolFactory.create_skill_tool_function)
\* ------------------------------------------------------------------------
MaxParams == 2            \* most parameters a skill declares

AllParams == <<"region", "metric", "period">>
Values == {"west", "north"}          \* values a caller may supply
Allowed == {"west", "east"}          \* constrained_values of a constrained parameter
Absent == "absent"                   \* the name is not a key of kwargs

\* skill_config.parameters: declared parameters in declaration order
ParamSpec(i, required, constrained) ==
    [name |-> AllParams[i], required |-> required, constrained |-> constrained]
SkillConfigs ==
    UNION {[1..n -> BOOLEAN \X BOOLEAN] : n \in 1..MaxParams}
Parameters(cfg) == [i \in DOMAIN cfg |-> ParamSpec(i, cfg[i][1], cfg[i][2])]

ToolContexts ==
    [token : BOOLEAN, connect : BOOLEAN, static : {NoTenant, "A"}, path : {NoTenant, "B"}]
RemoteResults ==
    {[raised |-> TRUE, success |-> FALSE, data |-> "absent"]}
    \cup [raised : {FALSE}, success : BOOLEAN,
          data : {"absent", "with_final_message", "without_final_message"}]
NoResult == [kind |-> "none", detail |-> "none"]
NoRemote == [raised |-> FALSE, success |-> FALSE, data |-> "none"]

ParamNames(ps) == {ps[i].name : i \in DOMAIN ps}

\* the loop over skill_parameters: index of the first required parameter that
\* is not a key of kwargs, 0 when there is none
first_missing_required(ps, kw) ==
    LET miss == {i \in DOMAIN ps : kw[ps[i].name] = Absent /\ ps[i].required}
    IN  IF miss = {} THEN 0 ELSE CHOOSE i \in miss : \A j \in miss : i <= j

\* the loop without the "if value is None: continue" branch
processed_params_keep_none(ps, kw, n) ==
    LET keep == {ps[i].name : i \in {j \in DOMAIN ps : j <= n /\ kw[ps[j].name] # Absent}}
    IN  [p \in keep |-> kw[p]]

\* processed_params after the loop has visited the first n parameters: the
\* supplied values that are not None
processed_params(ps, kw, n) ==
    LET keep == {ps[i].name : i \in {j \in DOMAIN ps : j <= n /\ kw[ps[j].name] \notin {Absent, None}}}
    IN  [p \in keep |-> kw[p]]

\* a resolution that asks the request path first
actual_copilot_id_path_first(ctx) ==
    IF ctx.path # NoTenant THEN ctx.path ELSE ctx.static

\* actual_copilot_id = copilot_id or extract_copilot_id(context)
actual_copilot_id(ctx) == IF ctx.static # NoTenant THEN ctx.static ELSE ctx.path

\* the value returned after a successful run
success_value(res) ==
    IF res.data # "absent"
    THEN (IF res.data = "with_final_message" THEN "final_message" ELSE "")
    ELSE "No data returned from skill"

\* ------------------------------------------------------------------------
\* ArgumentValidator.validate_skill_arguments
\* ------------------------------------------------------------------------
\* A supplied value is a scalar or a list; both are written as records so
\* that isinstance(value, list) is the field is_list.
Scalar(v) == [is_list |-> FALSE, items |-> <<v>>]
List(s) == [is_list |-> TRUE, items |-> s]
Lists == {<<>>, <<"west">>, <<"west", "north">>}
ArgValues == {Scalar(v) : v \in Values \cup {None, Absent}} \cup {List(s) : s \in Lists}

\* a declared parameter as the validator reads it
ValidatorParam(i, required, constrained, is_multi) ==
    [name |-> AllParams[i], required |-> required, constrained |-> constrained,
     is_multi |-> is_multi]
ValidatorConfigs ==
    UNION {[1..n -> BOOLEAN \X BOOLEAN \X BOOLEAN] : n \in 1..MaxParams}
ValidatorParameters(cfg) ==
    [i \in DOMAIN cfg |-> ValidatorParam(i, cfg[i][1], cfg[i][2], cfg[i][3])]

NoArgs == [p \in {} |-> Scalar(Absent)]
NoValidation == [raised |-> FALSE, error |-> "none", param |-> "none", args |-> NoArgs]

\* if not isinstance(value, list): value = [value]
Wrap(v) == IF v.is_list THEN v ELSE List(v.items)

\* v not in param.constrained_values: a list is never a member of the set
NotMember(v) == v.is_list \/ v.items[1] \notin Allowed

\* [v for v in value if v not in param.constrained_values]
invalid_values(v) == {k \in DOMAIN v.items : v.items[k] \notin Allowed}

\* the loop body without the wrapping of a scalar handed to a multi parameter
validate_param_unwrapped(prm, v) ==
    IF v = Scalar(Absent)
    THEN (IF prm.required THEN [do |-> "raise", error |-> "missing", value |-> v]
          ELSE [do |-> "skip", error |-> "none", value |-> v])
    ELSE IF v = Scalar(None) THEN [do |-> "skip", error |-> "none", value |-> v]
    ELSE IF prm.constrained /\ prm.is_multi /\ invalid_values(v) # {}
    THEN [do |-> "raise", error |-> "invalid_values", value |-> v]
    ELSE IF prm.constrained /\ ~prm.is_multi /\ NotMember(v)
    THEN [do |-> "raise", error |-> "invalid_value", value |-> v]
    ELSE [do |-> "store", error |-> "none", value |-> v]

\* one pass of the loop body for parameter prm and the value found for it
validate_param(prm, v) ==
    IF v = Scalar(Absent)
    THEN (IF prm.required THEN [do |-> "raise", error |-> "missing", value |-> v]
          ELSE [do |-> "skip", error |-> "none", value |-> v])
    ELSE IF v = Scalar(None) THEN [do |-> "skip", error |-> "none", value |-> v]
    ELSE IF prm.constrained /\ prm.is_multi /\ invalid_values(Wrap(v)) # {}
    THEN [do |-> "raise", error |-> "invalid_values", value |-> v]
    ELSE IF prm.constrained /\ ~prm.is_multi /\ NotMember(v)
    THEN [do |-> "raise", error |-> "invalid_value", value |-> v]
    ELSE [do |-> "store", error |-> "none",
          value |-> IF prm.is_multi THEN Wrap(v) ELSE v]

\* the loop from parameter i on, with validated_args so far
RECURSIVE validate_from(_, _, _, _)
validate_from(ps, args, i, acc) ==
    IF i > Len(ps)
    THEN [raised |-> FALSE, error |-> "none", param |-> "none", args |-> acc]
    ELSE LET r == validate_param(ps[i], args[ps[i].name])
         IN  IF r.do = "raise"
             THEN [raised |-> TRUE, error |-> r.error, param |-> ps[i].name,
                   args |-> NoArgs]
             ELSE IF r.do = "skip" THEN validate_from(ps, args, i + 1, acc)
             ELSE validate_from(ps, args, i + 1, (ps[i].name :> r.value) @@ acc)

validate_skill_arguments(args, ps) == validate_from(ps, args, 1, NoArgs)

InitValidator ==
    /\ vparams = <<>>
    /\ vargs = NoArgs
    /\ validated = NoValidation

\* ------------------------------------------------------------------------
\* The tool contract of a skill
\* ------------------------------------------------------------------------
DeclaredParam(i, required, typed) ==
    [name |-> AllParams[i], required |-> required, typed |-> typed]
SkillDeclarations ==
    UNION {[1..n -> BOOLEAN \X BOOLEAN] : n \in 0..MaxParams}
Declared(cfg) == [i \in DOMAIN cfg |-> DeclaredParam(i, cfg[i][1], cfg[i][2])]
Extractors == {"utils/skill.py", "utils.py"}

\* SkillParameter.from_max_parameter for every declared parameter: the
\* parameter with its name and required flag; a type outside the closed set
\* of primitive kinds is an error.
from_max_parameters(ps) ==
    IF \E i \in DOMAIN ps : ~ps[i].typed
    THEN [raised |-> TRUE, parameters |-> <<>>]
    ELSE [raised |-> FALSE,
          parameters |-> [i \in DOMAIN ps |->
                             [name |-> ps[i].name, required |-> ps[i].required]]]

\* utils.py extract_skill_parameters: one SkillParameter per declared one
extract_skill_parameters_module(ps) ==
    IF ps = <<>> THEN [raised |-> FALSE, parameters |-> <<>>]
    ELSE from_max_parameters(ps)

\* utils/skill.py SkillService.extract_skill_parameters: the list is created
\* and returned; nothing is appended to it.
extract_skill_parameters(ps) == [raised |-> FALSE, parameters |-> <<>>]

\* the signature loop of create_skill_tool_function: one keyword-only
\* parameter per entry of skill_config.parameters, in order, without a
\* default exactly when the entry is required
sig_params(parameters) ==
    [i \in DOMAIN parameters |->
        [name |-> parameters[i].name, required |-> parameters[i].required]]

InitContract ==
    /\ declared = <<>>
    /\ extractor = "none"
    /\ contract = <<>>

\* ------------------------------------------------------------------------
\* Startup
\* ------------------------------------------------------------------------
StartupSkillLists == {<<>>, <<"s1">>, <<"s1", "s3">>, <<"s2", "s1">>}
Envs ==
    [mode : {"local", "remote", "other"}, ar_url : BOOLEAN, ar_token : BOOLEAN,
     copilot_id : BOOLEAN, connect : BOOLEAN, resolves : BOOLEAN,
     skill_ids : StartupSkillLists]
NoEnv ==
    [mode |-> "none", ar_url |-> FALSE, ar_token |-> FALSE, copilot_id |-> FALSE,
     connect |-> FALSE, resolves |-> FALSE, skill_ids |-> <<>>]
\* self.copilot before the lookup, and the None the lookup falls back to
Unfetched == [state |-> "unfetched", skill_ids |-> <<>>]
NoCopilot == [state |-> "None", skill_ids |-> <<>>]

\* a lookup that answers a failure with a copilot without skills
get_copilot_info_empty_fallback(env) ==
    IF ~env.connect \/ ~env.resolves
    THEN [state |-> "copilot", skill_ids |-> <<>>]
    ELSE [state |-> "copilot", skill_ids |-> env.skill_ids]

\* CopilotService.get_copilot_info: the copilot, or None when the probe
\* fails, the id does not resolve or the upstream call raises
get_copilot_info(env) ==
    IF ~env.connect \/ ~env.resolves
    THEN NoCopilot
    ELSE [state |-> "copilot", skill_ids |-> env.skill_ids]

\* validate_environment_for_mode
validate_environment_for_mode(env) ==
    IF env.mode = "local" THEN env.ar_url /\ env.ar_token /\ env.copilot_id
    ELSE IF env.mode = "remote" THEN env.ar_url
    ELSE FALSE

InitStartup ==
    /\ spc = "idle"
    /\ senv = NoEnv
    /\ scopilot = Unfetched
    /\ stools = {}
    /\ sexit = "none"
    /\ sfail = "none"
    /\ slisted = {}
    /\ slast = "none"
    /\ sbatch = [built |-> <<>>, bad |-> {}]

\* ------------------------------------------------------------------------
\* Clients built while serving requests in multi-tenant mode
\* ------------------------------------------------------------------------
Hosts == {"h1", "h2"}                \* base URLs a request may arrive under
StaticUrl == "AR_URL"                \* self.ar_url, read from the environment
NoUrl == "none"
\* connect: a can_connect() probe for this request's credential would succeed
HttpRequests == [host : Hosts, token : BOOLEAN, connect : BOOLEAN]
NoHttpRequest == [host |-> NoUrl, token |-> FALSE, connect |-> FALSE]
Client(url, probe) == [url |-> url, probe |-> probe]
NoClient == Client(NoUrl, "none")

\* str(context.request_context.request.base_url).rstrip("/")
base_url(r) == r.host

\* the client of a listing cycle: RemoteMode._register_copilot_tools and
\* ToolRegistry._register_dynamic_tools take the URL from the request and
\* call create_client_from_context, which builds the client without probing;
\* server.py uses self.ar_url and probes inside get_copilot_info.
listing_client(handler, r) ==
    IF ~create_client_from_context(r, FALSE) THEN NoClient
    ELSE IF handler = "server"
    THEN (IF r.connect THEN Client(StaticUrl, "passed") ELSE NoClient)
    ELSE Client(base_url(r), "not_run")

\* the client of a tool invocation: create_client_from_context with the
\* ar_url the callable was created with, then the can_connect() probe
invocation_client(ar_url, r) ==
    IF ~create_client_from_context(r, FALSE) THEN NoClient
    ELSE Client(ar_url, IF r.connect THEN "passed" ELSE "failed")

InitClient ==
    /\ tool_ar_url = NoUrl
    /\ lreq = NoHttpRequest
    /\ lclient = NoClient
    /\ lfetched = FALSE
    /\ ireq = NoHttpRequest
    /\ iclient = NoClient
    /\ iran = FALSE

\* ------------------------------------------------------------------------
\* IntrospectionTokenVerifier
\* ------------------------------------------------------------------------
MaxAudiences == 2

\* a resource URL: its origin and the segments of its path
Resources == [origin : {"o1", "o2"}, path : {<<>>, <<"mcp">>, <<"mcp", "agent">>}]

\* the 'aud' field of the introspection answer: absent, a string (the empty
\* one has kind "empty") or a list of strings
Audiences ==
    {[kind |-> k, items |-> <<>>] : k \in {"None", "empty", "list"}}
    \cup {[kind |-> "str", items |-> <<a>>] : a \in Resources}
    \cup {[kind |-> "list", items |-> q] :
             q \in UNION {[1..n -> Resources] : n \in 1..MaxAudiences}}

\* what verify_token works on: the configured authorization server, the
\* strict flag, context["base_url"] and the answer of the endpoint (raises:
\* the request, the decoding of the answer or the building of the
\* AccessToken raises)
Introspections ==
    [scheme : {"https://", "http://", "ftp://"},
     host : {"localhost", "127.0.0.1", "local.answerrocket.com", "auth.example.com"},
     validate_resource : BOOLEAN,
     base_known : BOOLEAN, base_url : {[origin |-> "o1", path |-> <<"mcp">>]},
     raises : BOOLEAN, status_code : {200, 401},
     active : {"absent", "true", "false"},
     aud : Audiences]

\* the test on introspection_endpoint that precedes the request
safe_endpoint(i) ==
    \/ i.scheme = "https://"
    \/ i.scheme = "http://" /\ i.host \in {"localhost", "127.0.0.1"}
    \/ i.host = "local.answerrocket.com"

\* mcp.shared.auth_utils.check_resource_allowed: same origin, and the
\* configured path is a prefix of the requested one
check_resource_allowed(requested, configured) ==
    /\ requested.origin = configured.origin
    /\ Len(configured.path) <= Len(requested.path)
    /\ SubSeq(requested.path, 1, Len(configured.path)) = configured.path

\* _is_valid_resource
is_valid_resource(resource, i) ==
    IF ~i.base_known THEN FALSE ELSE check_resource_allowed(i.base_url, resource)

\* a validation that lets a token without audience through
validate_resource_unbound_allowed(i) ==
    IF ~i.base_known THEN FALSE
    ELSE IF i.aud.kind = "list"
    THEN \E k \in DOMAIN i.aud.items : is_valid_resource(i.aud.items[k], i)
    ELSE IF i.aud.kind = "str" THEN is_valid_resource(i.aud.items[1], i)
    ELSE TRUE

\* _validate_resource
validate_resource(i) ==
    IF ~i.base_known THEN FALSE
    ELSE IF i.aud.kind = "list"
    THEN \E k \in DOMAIN i.aud.items : is_valid_resource(i.aud.items[k], i)
    ELSE IF i.aud.kind = "str" THEN is_valid_resource(i.aud.items[1], i)
    ELSE FALSE

\* verify_token
verify_token(i) ==
    IF ~safe_endpoint(i) THEN "None"
    ELSE IF i.raises THEN "None"
    ELSE IF i.status_code # 200 THEN "None"
    ELSE IF i.active # "true" THEN "None"
    ELSE IF i.validate_resource /\ ~validate_resource(i) THEN "None"
    ELSE "AccessToken"

InitVerify ==
    /\ introspection = "none"
    /\ access = "none"

\* ------------------------------------------------------------------------
\* CursesCopilotSelector
\* ------------------------------------------------------------------------
MaxCopilots == 3
MaxQuery == 2

\* the printable keys
Printable == {"a", "B", " "}

\* self.searchable_texts[idx]: the lowercased name, description and skills
searchable_text(idx) ==
    IF idx % 3 = 0 THEN <<"a">> ELSE IF idx % 3 = 1 THEN <<"a", "b">> ELSE <<"b">>

\* self.state.query.lower().split(): the maximal runs without whitespace
search_terms(query) ==
    LET q == [i \in DOMAIN query |-> IF query[i] = "B" THEN "b" ELSE query[i]]
    IN  {SubSeq(q, i, j) : <<i, j>> \in
            {<<m, k>> \in (DOMAIN q) \X (DOMAIN q) :
                /\ m <= k
                /\ \A x \in m..k : q[x] # " "
                /\ (m = 1 \/ q[m - 1] = " ")
                /\ (k = Len(q) \/ q[k + 1] = " ")}}

\* term in searchable_text
contains(text, term) ==
    \E i \in 1..(Len(text) - Len(term) + 1) : SubSeq(text, i, i + Len(term) - 1) = term

\* the copilots that match the query, by index
matching(n, query) ==
    IF query = <<>> THEN [i \in 1..n |-> i - 1]
    ELSE SelectSeq([i \in 1..n |-> i - 1],
                   LAMBDA idx : \A t \in search_terms(query) :
                                   contains(searchable_text(idx), t))

\* a filter that leaves the highlighted index where it was
filter_copilots_index_kept(st, n) ==
    [st EXCEPT !.filtered_indices = matching(n, st.query)]

\* a filter that drops the selected copilots the query hides
filter_copilots_selection_cut(st, n) ==
    LET filtered == matching(n, st.query)
    IN  [st EXCEPT !.filtered_indices = filtered,
                   !.selected_indices = @ \cap {filtered[i] : i \in DOMAIN filtered},
                   !.current_index = IF filtered = <<>> THEN 0
                                     ELSE IF @ >= Len(filtered) THEN Len(filtered) - 1
                                     ELSE @]

\* filter_copilots
filter_copilots(st, n) ==
    LET filtered == matching(n, st.query)
    IN  [st EXCEPT !.filtered_indices = filtered,
                   !.current_index = IF filtered = <<>> THEN 0
                                     ELSE IF @ >= Len(filtered) THEN Len(filtered) - 1
                                     ELSE @]

\* DropdownState(filtered_indices=list(range(len(copilots))))
DropdownState(n) ==
    [query |-> <<>>, filtered_indices |-> [i \in 1..n |-> i - 1],
     selected_indices |-> {}, current_index |-> 0,
     confirm_dialog |-> FALSE, confirm_save |-> TRUE]

\* sorted(self.state.selected_indices)
RECURSIVE sorted(_)
sorted(S) ==
    IF S = {} THEN <<>>
    ELSE LET least == CHOOSE x \in S : \A y \in S : x <= y
         IN  <<least>> \o sorted(S \ {least})

InitSelector ==
    /\ copilot_count = 0
    /\ state = DropdownState(0)
    /\ returned = [from |-> "not_started", value |-> <<>>]

\* ------------------------------------------------------------------------
\* The delayed refresh task of RemoteMode
\* ------------------------------------------------------------------------
MaxTasks == 2

\* send_tool_list_changed in the task: there is no request context and
\* nothing is sent, the session takes the notification, or the send raises
NotifyOutcomes == {"skipped", "sent", "failed"}

NoListing == [out |-> "none", listing |-> {}, built |-> <<>>]

\* what the caller of dynamic_list_tools gets: the listing, or the exception
Returned(o) ==
    [out |-> o.out, listing |-> IF o.out = "done" THEN o.reg ELSE {}, built |-> o.built]

\* a handler that awaits the refresh instead of scheduling it: the
\* notification is sent, and may raise, before the listing is returned
delayed_tool_refresh_awaited(o, outcome) ==
    IF o.built = <<>> THEN [res |-> Returned(o), scheduled |-> 0, notified |-> "none"]
    ELSE [res |-> Returned(IF outcome = "failed" THEN [o EXCEPT !.out = "raised"] ELSE o),
          scheduled |-> 0, notified |-> outcome]

\* asyncio.create_task(self._delayed_tool_refresh(registry)): reached only
\* when skill configs were fetched; the task starts with asyncio.sleep(5)
\* and the handler goes on to return the listing
create_task_delayed_tool_refresh(o, outcome) ==
    [res |-> Returned(o), scheduled |-> IF o.built = <<>> THEN 0 ELSE 1,
     notified |-> "none"]

InitRefresh ==
    /\ rpc = "idle"
    /\ rres = NoListing
    /\ rsleeping = 0
    /\ rnotified = "none"

\* ------------------------------------------------------------------------
\* RequestContextExtractor
\* ------------------------------------------------------------------------
\* A string is a sequence of pieces; CharLen is the number of characters of
\* a piece, so that slicing by characters can be told from slicing by pieces.
CharLen(piece) ==
    CASE piece = "Bearer" -> 6 [] piece = "bearer" -> 6 [] piece = "Basic" -> 5
      [] piece = " " -> 1 [] piece = "tok" -> 3 [] piece = "/" -> 1
      [] piece = "agent" -> 5 [] piece = "mcp" -> 3 [] piece = "c1" -> 2

StartsWith(v, prefix) ==
    Len(v) >= Len(prefix) /\ SubSeq(v, 1, Len(prefix)) = prefix

\* v[n:] for a string whose first pieces make up exactly n characters
RECURSIVE Slice(_, _)
Slice(v, n) ==
    IF n <= 0 \/ v = <<>> THEN v ELSE Slice(Tail(v), n - CharLen(Head(v)))

BearerPrefix == <<"Bearer", " ">>

\* a check that takes any capitalisation of the scheme
starts_with_bearer_any_case(v) ==
    StartsWith(v, BearerPrefix) \/ StartsWith(v, <<"bearer", " ">>)

\* auth_header.startswith('Bearer ')
starts_with_bearer(v) == StartsWith(v, BearerPrefix)

HeaderNames == {"Authorization", "authorization", "X-Other"}
\* header_name.lower(), and the case-insensitive key of request.headers
Lower(name) ==
    CASE name = "Authorization" -> "authorization"
      [] name = "authorization" -> "authorization"
      [] name = "X-Other" -> "x-other"
HeaderValues ==
    {<<>>, <<"Bearer", " ", "tok">>, <<"bearer", " ", "tok">>, <<"Basic", " ", "tok">>,
     <<"Bearer", "tok">>, <<"Bearer", " ">>, <<" ", "Bearer", " ", "tok">>,
     <<"Bearer", " ", "tok", " ", "tok">>}
Headers == [name : HeaderNames, value : HeaderValues]
MaxHeaders == 2           \* most headers of a request
HeaderLists == UNION {[1..n -> Headers] : n \in 0..MaxHeaders}
\* the context: reading the request raises, there is no request, or a
\* request with headers
BearerContexts ==
    {[request |-> "raises", headers |-> <<>>], [request |-> "None", headers |-> <<>>]}
    \cup [request : {"request"}, headers : HeaderLists]
NoBearerContext == [request |-> "none", headers |-> <<>>]
NoToken == [found |-> FALSE, token |-> <<>>]
Token(v) == [found |-> TRUE, token |-> v]

\* request.headers.get('authorization', ''): the first header with that
\* name, whatever its capitalisation
headers_get(hs, key) ==
    LET hit == {i \in DOMAIN hs : Lower(hs[i].name) = key}
    IN  IF hit = {} THEN <<>> ELSE hs[CHOOSE i \in hit : \A j \in hit : i <= j].value

\* the loop over request.headers.raw: the first authorization header that
\* carries the prefix
raw_bearer(hs) ==
    LET hit == {i \in DOMAIN hs : Lower(hs[i].name) = "authorization"
                                    /\ starts_with_bearer(hs[i].value)}
    IN  IF hit = {} THEN NoToken
        ELSE Token(Slice(hs[CHOOSE i \in hit : \A j \in hit : i <= j].value, 7))

\* RequestContextExtractor.extract_bearer_token
extract_bearer_token(ctx) ==
    IF ctx.request # "request" THEN NoToken
    ELSE IF starts_with_bearer(headers_get(ctx.headers, "authorization"))
    THEN Token(Slice(headers_get(ctx.headers, "authorization"), 7))
    ELSE raw_bearer(ctx.headers)

MaxPathLen == 7           \* most pieces of a request path
PathPieces == {"/", "agent", "mcp", "c1"}
Paths == UNION {[1..n -> PathPieces] : n \in 0..MaxPathLen}
Marker == <<"/", "agent", "/">>
NoCopilotId == [found |-> FALSE, id |-> <<>>]

\* sep in s: the positions where sep occurs
Occurrences(str, sep) ==
    {k \in 1..(Len(str) - Len(sep) + 1) : SubSeq(str, k, k + Len(sep) - 1) = sep}

\* s.split(sep): the pieces between the occurrences of sep, found from the left
RECURSIVE split(_, _)
split(str, sep) ==
    IF Occurrences(str, sep) = {} THEN <<str>>
    ELSE LET k == CHOOSE i \in Occurrences(str, sep) :
                      \A j \in Occurrences(str, sep) : i <= j
         IN  <<SubSeq(str, 1, k - 1)>>
             \o split(SubSeq(str, k + Len(sep), Len(str)), sep)

\* an extraction that takes what follows the last marker
extract_copilot_id_last_marker(path) ==
    IF Occurrences(path, Marker) = {} THEN NoCopilotId
    ELSE LET parts == split(path, Marker)
         IN  [found |-> TRUE, id |-> split(parts[Len(parts)], <<"/">>)[1]]

\* RequestContextExtractor.extract_copilot_id on the path of the request:
\* parts = path.split("/agent/"); parts[1].split("/")[0]
extract_copilot_id_from_context(path) ==
    IF Occurrences(path, Marker) = {} THEN NoCopilotId
    ELSE LET parts == split(path, Marker)
         IN  IF Len(parts) > 1
             THEN [found |-> TRUE, id |-> split(parts[2], <<"/">>)[1]]
             ELSE NoCopilotId

\* if not copilot_id: the handler skips registration
usable_copilot_id(res) == res.found /\ res.id # <<>>

\* copilot.copilot_skill_ids: None, a string or a list of strings
SkillIdLists ==
    {<<>>} \cup {<<x>> : x \in Skills}
    \cup {<<x, y>> : x \in Skills, y \in Skills}
NoSkillIds == [kind |-> "None", scalar |-> "", items |-> <<>>]
SkillIdFields ==
    {NoSkillIds}
    \cup {[kind |-> "str", scalar |-> x, items |-> <<>>] : x \in Skills \cup {""}}
    \cup {[kind |-> "list", scalar |-> "", items |-> q] : q \in SkillIdLists}

\* Python truth value of the field
truthy(field) ==
    IF field.kind = "None" THEN FALSE
    ELSE IF field.kind = "str" THEN field.scalar # ""
    ELSE field.items # <<>>

\* a normalisation that takes anything but a list for no ids at all
normalize_skill_ids_list_only(field) ==
    IF field.kind = "list" THEN field.items ELSE <<>>

\* skill_ids = copilot.copilot_skill_ids
\* if not isinstance(skill_ids, list): skill_ids = [skill_ids] if skill_ids else []
normalize_skill_ids(field) ==
    IF field.kind = "list" THEN field.items
    ELSE IF truthy(field) THEN <<field.scalar>> ELSE <<>>

\* SkillService.build_skill_configs_async as a whole: the early return, the
\* normalisation, one fetch per id and the build
build_skill_configs_async(field, failed) ==
    IF ~truthy(field) THEN [fetched |-> <<>>, configs |-> <<>>]
    ELSE LET skill_ids == normalize_skill_ids(field)
         IN  [fetched |-> skill_ids,
              configs |-> build_skill_configs(Gathered(skill_ids, failed))]

InitExtract ==
    /\ nfield = NoSkillIds
    /\ nfetched = <<>>
    /\ nbuilt = <<>>
    /\ epc = "idle"
    /\ bctx = NoBearerContext
    /\ btoken = NoToken
    /\ upath = <<>>
    /\ ucopilot = NoCopilotId

InitTool ==
    /\ InitValidator
    /\ InitContract
    /\ InitStartup
    /\ InitClient
    /\ InitRefresh
    /\ InitExtract
    /\ InitVerify
    /\ InitSelector
    /\ tpc = "idle"
    /\ params = <<>>
    /\ kwargs = [p \in {} |-> Absent]
    /\ tctx = [token |-> FALSE, connect |-> FALSE, static |-> NoTenant, path |-> NoTenant]
    /\ processed = [p \in {} |-> Absent]
    /\ notices = <<>>
    /\ remoteCalls = <<>>
    /\ sres = NoRemote
    /\ cause = "none"
    /\ tresult = NoResult

\* The protocol layer calls the tool with a context and keyword arguments.
Invoke ==
    /\ tpc = "idle"
    /\ \E cfg \in SkillConfigs, ctx \in ToolContexts :
         /\ params' = Parameters(cfg)
         /\ tctx' = ctx
         /\ \E kw \in [ParamNames(Parameters(cfg)) -> Values \cup {None, Absent}] :
              kwargs' = kw
    /\ tpc' = "info_executing"
    /\ UNCHANGED <<processed, notices, remoteCalls, sres, cause, tresult, listVars, restVars>>

\* await context.info / debug / error inside the try block: the notice is
\* delivered and the function goes on, or the call raises into the handler.
Notify(at, kind, next) ==
    /\ tpc = at
    /\ \E ok \in BOOLEAN :
         IF ok
         THEN /\ notices' = Append(notices, kind)
              /\ tpc' = next
              /\ cause' = cause
         ELSE /\ notices' = notices
              /\ tpc' = "except"
              /\ cause' = "notify"

NotifyExecuting ==
    /\ Notify("info_executing", "executing", "validate")
    /\ UNCHANGED <<params, kwargs, tctx, processed, remoteCalls, sres, tresult, listVars, restVars>>

\* the validate-and-transform loop
ValidateParams ==
    /\ tpc = "validate"
    /\ LET m == first_missing_required(params, kwargs)
       IN  IF m # 0
           THEN /\ processed' = processed_params(params, kwargs, m - 1)
                /\ tpc' = "error_required"
           ELSE /\ processed' = processed_params(params, kwargs, Len(params))
                /\ tpc' = IF DOMAIN processed_params(params, kwargs, Len(params)) # {}
                          THEN "debug_params" ELSE "info_connecting"
    /\ UNCHANGED <<params, kwargs, tctx, notices, remoteCalls, sres, cause, tresult, listVars, restVars>>

\* await context.error(error_msg); return {"success": False, "error": ...}
NotifyRequiredError ==
    /\ Notify("error_required", "error", "returned")
    /\ tresult' = IF tpc' = "returned"
                  THEN [kind |-> "validation",
                        detail |-> params[first_missing_required(params, kwargs)].name]
                  ELSE tresult
    /\ UNCHANGED <<params, kwargs, tctx, processed, remoteCalls, sres, listVars, restVars>>

NotifyDebug ==
    /\ Notify("debug_params", "debug", "info_connecting")
    /\ UNCHANGED <<params, kwargs, tctx, processed, remoteCalls, sres, tresult, listVars, restVars>>

NotifyConnecting ==
    /\ Notify("info_connecting", "connecting", "connect")
    /\ UNCHANGED <<params, kwargs, tctx, processed, remoteCalls, sres, tresult, listVars, restVars>>

\* create the client, probe it, resolve the copilot id
ResolveClient ==
    /\ tpc = "connect"
    /\ IF ~tctx.token THEN tpc' = "except" /\ cause' = "no_client"
       ELSE IF ~tctx.connect THEN tpc' = "except" /\ cause' = "no_connect"
       ELSE IF actual_copilot_id(tctx) = NoTenant THEN tpc' = "except" /\ cause' = "no_copilot"
       ELSE tpc' = "info_running" /\ cause' = cause
    /\ UNCHANGED <<params, kwargs, tctx, processed, notices, remoteCalls, sres, tresult, listVars, restVars>>

NotifyRunning ==
    /\ Notify("info_running", "running", "run")
    /\ UNCHANGED <<params, kwargs, tctx, processed, remoteCalls, sres, tresult, listVars, restVars>>

\* skill_result = ar_client.skill.run(actual_copilot_id, skill_name, processed_params)
RunSkill ==
    /\ tpc = "run"
    /\ remoteCalls' = Append(remoteCalls,
                             [copilot |-> actual_copilot_id(tctx), args |-> processed])
    /\ \E res \in RemoteResults :
         /\ sres' = res
         /\ IF res.raised THEN tpc' = "except" /\ cause' = "remote_raised"
            ELSE IF ~res.success THEN tpc' = "error_failed" /\ cause' = cause
            ELSE tpc' = "info_success" /\ cause' = cause
    /\ UNCHANGED <<params, kwargs, tctx, processed, notices, tresult, listVars, restVars>>

\* await context.error("Skill execution failed: ..."); return skill_result.error
NotifyFailed ==
    /\ Notify("error_failed", "error", "returned")
    /\ tresult' = IF tpc' = "returned"
                  THEN [kind |-> "value", detail |-> "skill_result.error"]
                  ELSE tresult
    /\ UNCHANGED <<params, kwargs, tctx, processed, remoteCalls, sres, listVars, restVars>>

\* await context.info("Skill executed successfully"); return the message
NotifySuccess ==
    /\ Notify("info_success", "success", "returned")
    /\ tresult' = IF tpc' = "returned"
                  THEN [kind |-> "value", detail |-> success_value(sres)]
                  ELSE tresult
    /\ UNCHANGED <<params, kwargs, tctx, processed, remoteCalls, sres, listVars, restVars>>

\* except Exception as e: await context.error(error_msg); return error_msg
\* The await is outside any try block: when it raises, the exception leaves
\* the callable.
HandleException ==
    /\ tpc = "except"
    /\ \E ok \in BOOLEAN :
         IF ok
         THEN /\ notices' = Append(notices, "error")
              /\ tpc' = "returned"
              /\ tresult' = [kind |-> "error_msg", detail |-> cause]
         ELSE /\ notices' = notices
              /\ tpc' = "raised"
              /\ tresult' = [kind |-> "exception", detail |-> "notify"]
    /\ UNCHANGED <<params, kwargs, tctx, processed, remoteCalls, sres, cause, listVars, restVars>>

\* A caller hands arguments and a skill config to the validator.  The tool
\* callable never calls it; it is an entry point of its own.
ValidateSkillArguments ==
    /\ tpc = "idle"
    /\ \E cfg \in ValidatorConfigs :
         \E a \in [ParamNames(ValidatorParameters(cfg)) -> ArgValues] :
            /\ vparams' = ValidatorParameters(cfg)
            /\ vargs' = a
            /\ validated' = validate_skill_arguments(a, ValidatorParameters(cfg))
            /\ tpc' = IF validate_skill_arguments(a, ValidatorParameters(cfg)).raised
                      THEN "validator_raised" ELSE "validator_returned"
    /\ UNCHANGED <<params, kwargs, tctx, processed, notices, remoteCalls, sres, cause,
                   tresult, listVars, contractVars, startVars, moreVars>>

\* A fetched skill is turned into a config and the config into a callable:
\* build_skill_configs_async, then create_skill_tool_function.
BuildToolContract ==
    /\ tpc = "idle"
    /\ \E cfg \in SkillDeclarations, ex \in Extractors :
         LET ps == IF ex = "utils/skill.py"
                   THEN extract_skill_parameters(Declared(cfg))
                   ELSE extract_skill_parameters_module(Declared(cfg))
         IN  /\ declared' = Declared(cfg)
             /\ extractor' = ex
             /\ contract' = sig_params(ps.parameters)
             /\ tpc' = IF ps.raised THEN "contract_raised" ELSE "contract_built"
    /\ UNCHANGED <<params, kwargs, tctx, processed, notices, remoteCalls, sres, cause,
                   tresult, listVars, valVars, startVars, moreVars>>

NextTool ==
    \/ ValidateSkillArguments
    \/ BuildToolContract
    \/ Invoke
    \/ NotifyExecuting
    \/ ValidateParams
    \/ NotifyRequiredError
    \/ NotifyDebug
    \/ NotifyConnecting
    \/ ResolveClient
    \/ NotifyRunning
    \/ RunSkill
    \/ NotifyFailed
    \/ NotifySuccess
    \/ HandleException

\* ------------------------------------------------------------------------
\* Startup actions
\* ------------------------------------------------------------------------
callVars == <<tpc, params, kwargs, tctx, processed, notices, remoteCalls, sres,
              cause, tresult>>
otherVars == <<listVars, callVars, valVars, contractVars, moreVars>>

\* the process is launched in some environment
Launch ==
    /\ spc = "idle"
    /\ \E env \in Envs : senv' = env
    /\ spc' = "validate_environment"
    /\ UNCHANGED <<scopilot, stools, sexit, sfail, slisted, slast, sbatch, otherVars>>

\* initialize_server: if not validate_environment_for_mode(mode): sys.exit(1)
ValidateEnvironment ==
    /\ spc = "validate_environment"
    /\ IF validate_environment_for_mode(senv)
       THEN spc' = "create_server" /\ sexit' = sexit /\ sfail' = sfail
       ELSE spc' = "exited" /\ sexit' = "exit_1" /\ sfail' = "environment"
    /\ UNCHANGED <<senv, scopilot, stools, slisted, slast, sbatch, otherVars>>

\* _initialize_local up to the client: create_client exits when the probe fails
CreateClient ==
    /\ spc = "create_server"
    /\ senv.mode = "local"
    /\ IF senv.connect
       THEN spc' = "get_copilot" /\ sexit' = sexit /\ sfail' = sfail
       ELSE spc' = "exited" /\ sexit' = "exit_1" /\ sfail' = "probe"
    /\ UNCHANGED <<senv, scopilot, stools, slisted, slast, sbatch, otherVars>>

\* an except block that reports the error and lets the process end normally
GetCopilot_exit_zero ==
    /\ spc = "get_copilot"
    /\ scopilot' = get_copilot_info(senv)
    /\ IF get_copilot_info(senv).state = "copilot"
       THEN spc' = "build" /\ sexit' = sexit /\ sfail' = sfail
       ELSE spc' = "exited" /\ sexit' = "exit_0" /\ sfail' = "copilot"
    /\ UNCHANGED <<senv, stools, slisted, slast, sbatch, otherVars>>

\* self.copilot = get_copilot_info(...); if not self.copilot: raise ValueError,
\* which initialize_server turns into sys.exit(1)
GetCopilot ==
    /\ spc = "get_copilot"
    /\ scopilot' = get_copilot_info(senv)
    /\ IF get_copilot_info(senv).state = "copilot"
       THEN spc' = "build" /\ sexit' = sexit /\ sfail' = sfail
       ELSE spc' = "exited" /\ sexit' = "exit_1" /\ sfail' = "copilot"
    /\ UNCHANGED <<senv, stools, slisted, slast, sbatch, otherVars>>

\* FastMCP(...), build_skill_configs and _register_tools_local, then
\* server.run; any exception on the way is turned into sys.exit(1)
BuildAndRegister ==
    /\ spc = "build"
    /\ \E failed \in SUBSET Range(scopilot.skill_ids), error \in BOOLEAN :
         IF error
         THEN /\ stools' = stools /\ sbatch' = sbatch
              /\ spc' = "exited" /\ sexit' = "exit_1" /\ sfail' = "create_server"
         ELSE LET configs == build_skill_configs(Gathered(scopilot.skill_ids, failed))
              IN  \E bad \in SUBSET Range(configs) :
                    /\ sbatch' = [built |-> configs, bad |-> bad]
                    /\ stools' = ToolNames(register_skills(Run({}, <<>>), configs,
                                                           "A", bad).reg)
                    /\ spc' = "running" /\ sexit' = sexit /\ sfail' = sfail
    /\ UNCHANGED <<senv, scopilot, slisted, slast, otherVars>>

\* _initialize_remote: no copilot is bound; tools are registered per request
InitializeRemote ==
    /\ spc = "create_server"
    /\ senv.mode = "remote"
    /\ \E error \in BOOLEAN :
         IF error
         THEN spc' = "exited" /\ sexit' = "exit_1" /\ sfail' = "create_server"
         ELSE spc' = "running" /\ sexit' = sexit /\ sfail' = sfail
    /\ UNCHANGED <<senv, scopilot, stools, slisted, slast, sbatch, otherVars>>

\* a listing handler that empties the table, as the dynamic one does
static_list_tools_cleared(reg) == [reg |-> {}, listing |-> {}]

\* the listing of the static regime: no handler is installed over
\* FastMCP.list_tools, which returns the tool table
static_list_tools(reg) == [reg |-> reg, listing |-> reg]

\* a tools/list request in the static regime
StaticListTools ==
    /\ spc = "running"
    /\ senv.mode = "local"
    /\ stools' = static_list_tools(stools).reg
    /\ slisted' = static_list_tools(stools).listing
    /\ slast' = "list"
    /\ UNCHANGED <<spc, senv, scopilot, sexit, sfail, sbatch, otherVars>>

\* a tools/call request in the static regime: the callable holds no
\* reference to the server and leaves the tool table alone
StaticCallTool ==
    /\ spc = "running"
    /\ senv.mode = "local"
    /\ stools # {}
    /\ slast' = "call"
    /\ UNCHANGED <<spc, senv, scopilot, stools, sexit, sfail, slisted, sbatch, otherVars>>

NextStartup ==
    \/ Launch
    \/ ValidateEnvironment
    \/ CreateClient
    \/ GetCopilot
    \/ BuildAndRegister
    \/ InitializeRemote
    \/ StaticListTools
    \/ StaticCallTool

\* ------------------------------------------------------------------------
\* Requests served in multi-tenant mode, as far as their clients go
\* ------------------------------------------------------------------------
nonClientVars == <<listVars, callVars, valVars, contractVars, startVars, extractVars,
                   refreshVars, auxVars>>

\* A listing request with a tenant id in its path is served: the table is
\* cleared, the client is built, the metadata is fetched through it and,
\* when the upstream answers, the tools are registered with the handler's
\* ar_url bound into each callable.
ClientListing ==
    \E r \in HttpRequests :
        LET cl == listing_client(impl, r)
        IN  /\ lreq' = r
            /\ lclient' = cl
            /\ lfetched' = (cl # NoClient)
            /\ tool_ar_url' = IF cl # NoClient /\ r.connect THEN cl.url ELSE NoUrl
            /\ UNCHANGED <<ireq, iclient, iran, nonClientVars>>

\* A registered tool is invoked: client from the context and the bound
\* ar_url, probe, then skill.run.
ClientInvocation ==
    /\ tool_ar_url # NoUrl
    /\ \E r \in HttpRequests :
         LET cl == invocation_client(tool_ar_url, r)
         IN  /\ ireq' = r
             /\ iclient' = cl
             /\ iran' = (cl # NoClient /\ cl.probe = "passed")
    /\ UNCHANGED <<tool_ar_url, lreq, lclient, lfetched, nonClientVars>>

NextClient ==
    \/ ClientListing
    \/ ClientInvocation

\* ------------------------------------------------------------------------
\* Token verification
\* ------------------------------------------------------------------------
nonAuxVars == <<listVars, callVars, valVars, contractVars, startVars, clientVars,
                extractVars, refreshVars>>

\* the authentication layer hands a bearer token to the verifier
VerifyToken ==
    /\ access = "none"
    /\ \E i \in Introspections :
         /\ introspection' = i
         /\ access' = verify_token(i)
    /\ UNCHANGED <<selectorVars, nonAuxVars>>

\* ------------------------------------------------------------------------
\* The key loop of the copilot selector
\* ------------------------------------------------------------------------
\* the selector is built over the copilots found and run_curses starts
RunSelector ==
    /\ returned.from = "not_started"
    /\ \E n \in 0..MaxCopilots :
         /\ copilot_count' = n
         /\ state' = DropdownState(n)
    /\ returned' = [returned EXCEPT !.from = "running"]
    /\ UNCHANGED <<verifyVars, nonAuxVars>>

\* the loop is waiting for a key
Running == returned.from = "running"

\* curses.KEY_UP
KeyUp ==
    /\ Running
    /\ state' = IF state.confirm_dialog
                THEN [state EXCEPT !.confirm_save = ~@]
                ELSE IF state.current_index > 0
                THEN [state EXCEPT !.current_index = @ - 1]
                ELSE state
    /\ UNCHANGED <<copilot_count, returned, verifyVars, nonAuxVars>>

\* curses.KEY_DOWN
KeyDown ==
    /\ Running
    /\ state' = IF state.confirm_dialog
                THEN [state EXCEPT !.confirm_save = ~@]
                ELSE IF state.current_index < Len(state.filtered_indices) - 1
                THEN [state EXCEPT !.current_index = @ + 1]
                ELSE state
    /\ UNCHANGED <<copilot_count, returned, verifyVars, nonAuxVars>>

\* Enter in the main screen
toggle(st) ==
    IF st.filtered_indices = <<>> THEN st
    ELSE LET copilot_idx == st.filtered_indices[st.current_index + 1]
         IN  [st EXCEPT !.selected_indices = IF copilot_idx \in @
                                             THEN @ \ {copilot_idx}
                                             ELSE @ \cup {copilot_idx}]

\* an answer that ignores the choice made in the dialog
confirm_always_saves(st) == sorted(st.selected_indices)

\* Enter in the confirm dialog: the indices of the copilots returned
confirm(st) ==
    IF st.selected_indices # {} /\ st.confirm_save THEN sorted(st.selected_indices)
    ELSE <<>>

\* Enter
KeyEnter ==
    /\ Running
    /\ IF state.confirm_dialog
       THEN /\ returned' = [from |-> "confirm_dialog", value |-> confirm(state)]
            /\ state' = state
       ELSE /\ state' = toggle(state)
            /\ returned' = returned
    /\ UNCHANGED <<copilot_count, verifyVars, nonAuxVars>>

\* Escape
KeyEscape ==
    /\ Running
    /\ state' = IF state.confirm_dialog
                THEN [state EXCEPT !.confirm_dialog = FALSE]
                ELSE [state EXCEPT !.confirm_dialog = TRUE, !.confirm_save = TRUE]
    /\ UNCHANGED <<copilot_count, returned, verifyVars, nonAuxVars>>

\* Backspace
KeyBackspace ==
    /\ Running
    /\ state' = IF state.confirm_dialog \/ state.query = <<>> THEN state
                ELSE filter_copilots(
                        [state EXCEPT !.query = SubSeq(@, 1, Len(@) - 1)], copilot_count)
    /\ UNCHANGED <<copilot_count, returned, verifyVars, nonAuxVars>>

\* a printable character
KeyPrintable ==
    /\ Running
    /\ Len(state.query) < MaxQuery
    /\ \E ch \in Printable :
         state' = IF state.confirm_dialog THEN state
                  ELSE filter_copilots([state EXCEPT !.query = Append(@, ch)],
                                       copilot_count)
    /\ UNCHANGED <<copilot_count, returned, verifyVars, nonAuxVars>>

\* key code 3 reaches the loop
KeyCtrlC ==
    /\ Running
    /\ ~state.confirm_dialog
    /\ returned' = [from |-> "ctrl_c", value |-> <<>>]
    /\ UNCHANGED <<copilot_count, state, verifyVars, nonAuxVars>>

NextSelector ==
    \/ RunSelector
    \/ KeyUp
    \/ KeyDown
    \/ KeyEnter
    \/ KeyEscape
    \/ KeyBackspace
    \/ KeyPrintable
    \/ KeyCtrlC

\* ------------------------------------------------------------------------
\* The listing of modes/remote.py with its detached refresh task
\* ------------------------------------------------------------------------
nonRefreshVars == <<callVars, valVars, contractVars, startVars, clientVars, extractVars,
                    auxVars>>

\* dynamic_list_tools of modes/remote.py, from the request to the listing
\* it returns, the scheduling of the refresh task included
RefreshListTools ==
    /\ impl = "remote"
    /\ rpc = "idle"
    /\ rsleeping < MaxTasks
    /\ \E r \in Requests, notfound \in BOOLEAN, outcome \in NotifyOutcomes :
         \E failed \in SUBSET Range(ListIds(r)), bad \in SUBSET Range(ListIds(r)) :
            LET o == remote_dynamic_list_tools(Run(registry, <<>>), r, ListIds(r),
                                               failed, bad, notfound)
                t == create_task_delayed_tool_refresh(o, outcome)
            IN  /\ registry' = o.reg
                /\ rres' = t.res
                /\ rsleeping' = rsleeping + t.scheduled
                /\ rnotified' = IF t.notified = "none" THEN rnotified ELSE t.notified
    /\ rpc' = "returned"
    /\ UNCHANGED <<impl, copilots, nchg, pc, req, ids, pending, infos, built, result,
                   trace, overlap, nonRefreshVars>>

\* the response has been delivered; the next request is served
RefreshDeliver ==
    /\ rpc = "returned"
    /\ rpc' = "idle"
    /\ UNCHANGED <<rres, rsleeping, rnotified, listVars, nonRefreshVars>>

\* _delayed_tool_refresh after its sleep: registry.send_tool_list_changed();
\* an exception ends the task and reaches no request
DelayedToolRefresh ==
    /\ rsleeping > 0
    /\ rsleeping' = rsleeping - 1
    /\ \E outcome \in NotifyOutcomes : rnotified' = outcome
    /\ UNCHANGED <<rpc, rres, listVars, nonRefreshVars>>

NextRefresh ==
    \/ RefreshListTools
    \/ RefreshDeliver
    \/ DelayedToolRefresh

\* ------------------------------------------------------------------------
\* Extraction actions
\* ------------------------------------------------------------------------
nonExtractVars == <<listVars, callVars, valVars, contractVars, startVars, clientVars,
                    refreshVars, auxVars>>

ExtractBearerToken ==
    /\ epc = "idle"
    /\ \E ctx \in BearerContexts :
         /\ bctx' = ctx
         /\ btoken' = extract_bearer_token(ctx)
    /\ epc' = "bearer"
    /\ UNCHANGED <<upath, ucopilot, nfield, nfetched, nbuilt, nonExtractVars>>

ExtractCopilotId ==
    /\ epc = "idle"
    /\ \E path \in Paths :
         /\ upath' = path
         /\ ucopilot' = extract_copilot_id_from_context(path)
    /\ epc' = "copilot_id"
    /\ UNCHANGED <<bctx, btoken, nfield, nfetched, nbuilt, nonExtractVars>>

\* build_skill_configs_async is called with some value of the field
BuildSkillConfigs ==
    /\ epc = "idle"
    /\ \E field \in SkillIdFields :
         \E failed \in SUBSET Range(normalize_skill_ids(field)) :
            /\ nfield' = field
            /\ nfetched' = build_skill_configs_async(field, failed).fetched
            /\ nbuilt' = build_skill_configs_async(field, failed).configs
    /\ epc' = "skill_ids"
    /\ UNCHANGED <<bctx, btoken, upath, ucopilot, nonExtractVars>>

NextExtract ==
    \/ ExtractBearerToken
    \/ ExtractCopilotId
    \/ BuildSkillConfigs

\* ------------------------------------------------------------------------
\* Specifications
\* ------------------------------------------------------------------------
Init == InitList /\ InitTool
Spec == Init /\ [][Next]_vars
\* the event loop runs every task that can run: a fetch whose upstream call
\* returns or raises completes, and a gather whose fetches are done resumes
SpecFair ==
    /\ Init /\ [][NextCycle]_vars
    /\ \A c \in Calls : WF_vars(FetchSkillInfo(c)) /\ WF_vars(ServerResume(c))
\* the tool callable is the same under every listing handler
InitInvocation == Init /\ impl = "server"
SpecTool == InitInvocation /\ [][NextTool]_vars
SpecStartup == InitInvocation /\ [][NextStartup]_vars
\* the startup sequence is straight-line code: it goes on until the process
\* exits or serves
SpecStartupFair == SpecStartup /\ WF_vars(NextStartup)
\* every listing handler serves requests in multi-tenant mode
SpecClient == Init /\ [][NextClient]_vars
SpecExtract == InitInvocation /\ [][NextExtract]_vars
InitRemote == Init /\ impl = "remote"
SpecRefresh == InitRemote /\ [][NextRefresh]_vars
SpecVerify == InitInvocation /\ [][VerifyToken]_vars
SpecSelector == InitInvocation /\ [][NextSelector]_vars

TypeOK ==
    /\ impl \in Impls
    /\ \A t \in registry : t.name \in Skills /\ t.tenant \in Tenants
    /\ \A c \in Calls : pc[c] \in {"idle", "fetching", "done", "raised"}
    /\ tpc \in {"idle", "info_executing", "validate", "error_required", "debug_params",
                "info_connecting", "connect", "info_running", "run", "error_failed",
                "info_success", "except", "returned", "raised",
                "validator_returned", "validator_raised",
                "contract_built", "contract_raised"}
    /\ spc \in {"idle", "validate_environment", "create_server", "get_copilot",
                "build", "running", "exited"}
    /\ sexit \in {"none", "exit_1"}
    /\ sfail \in {"none", "environment", "probe", "copilot", "create_server"}

\* ------------------------------------------------------------------------
\* Claims about the dynamic listing cycle (specification Spec)
\* ------------------------------------------------------------------------
TenantCall(c) == pc[c] # "idle" /\ req[c].tenant \in Tenants

\* C1: the listing returned to a caller whose tenant id was found contains
\* only tools built for that caller's tenant, under every interleaving of
\* concurrent listing calls.
C1_ListingOnlyOwnTenant ==
    \A c \in Calls :
        (pc[c] = "done" /\ req[c].tenant \in Tenants)
            => \A t \in result[c] : t.tenant = req[c].tenant

\* C2: a listing request without an extractable tenant id is answered with
\* the tool table cleared: the caller receives no tool of an earlier tenant.
C2_NoTenantListingCleared ==
    \A c \in Calls :
        (pc[c] = "done" /\ req[c].tenant = NoTenant) => result[c] = {}

\* C3: when a listing cycle for a tenant completes (returns or raises) without
\* having run concurrently with another cycle, the tool table holds no tool of
\* any other tenant, whatever an earlier cycle registered.
C3_Isolation ==
    [][\A c \in Calls :
          (pc[c] # pc'[c] /\ pc'[c] \in {"done", "raised"}
             /\ req'[c].tenant \in Tenants /\ ~overlap'[c])
              => \A t \in registry' : t.tenant = req'[c].tenant]_vars

\* a cycle for A registered tools, then a cycle for B completed and the table
\* holds B's tools only
C3_Witness ==
    /\ pc[1] = "done" /\ req[1].tenant = "A" /\ result[1] # {} /\ ~overlap[1]
    /\ pc[2] = "done" /\ req[2].tenant = "B" /\ ~overlap[2]
    /\ registry # {}
    /\ \A t \in registry : t.tenant = "B"

Rank(e) ==
    CASE e = "resolve" -> 1 [] e = "clear" -> 2 [] e = "fetch" -> 3
      [] e = "add" -> 4 [] e = "list" -> 5

\* the events are in the order resolve, clear, fetch, add*, list
Ordered(tr) ==
    /\ \A i, j \in 1..Len(tr) :
          i < j => (Rank(tr[i]) < Rank(tr[j]) \/ (tr[i] = "add" /\ tr[j] = "add"))
    /\ Len(tr) >= 2 => (tr[1] = "resolve" /\ tr[2] = "clear")

\* every add comes after the clear and after the fetch, no clear after an add
ClearThenRebuild(tr) ==
    \A j \in 1..Len(tr) :
        tr[j] = "add" =>
            /\ \E i \in 1..(j - 1) : tr[i] = "clear"
            /\ \E i \in 1..(j - 1) : tr[i] = "fetch"
            /\ \A k \in (j + 1)..Len(tr) : tr[k] # "clear"

\* C4: in a listing cycle whose tenant id is found the tool table is cleared
\* before the first add and never after one; in the server.py and RemoteMode
\* handlers the events of the cycle are in the order resolve-tenant, clear,
\* fetch, add*, list, and a returned cycle ends with the list.
C4_ClearBeforeRebuild ==
    \A c \in Calls :
        TenantCall(c) =>
            /\ ClearThenRebuild(trace[c])
            /\ \E i \in 1..Len(trace[c]) : trace[c][i] = "clear"
            /\ impl \in {"server", "remote"} => Ordered(trace[c])
            /\ pc[c] = "done" => trace[c][Len(trace[c])] = "list"

\* a cycle that cleared, fetched, added two tools and listed
C4_Witness ==
    \E c \in Calls :
        /\ pc[c] = "done" /\ req[c].tenant \in Tenants
        /\ trace[c] = <<"resolve", "clear", "fetch", "add", "add", "list">>
        /\ Cardinality(result[c]) = 2

\* C5: no scheduling-only skill is ever among the built skill configs, the
\* registered tools or a returned listing.
C5_NoSchedulingOnlyTool ==
    /\ \A t \in registry : ~scheduling_only(t.name)
    /\ \A c \in Calls :
          /\ \A t \in result[c] : ~scheduling_only(t.name)
          /\ \A i \in 1..Len(built[c]) : ~scheduling_only(built[c][i])

\* a cycle fetched the metadata of a scheduling-only skill and registered tools
C5_Witness ==
    \E c \in Calls :
        /\ pc[c] = "done"
        /\ \E i \in 1..Len(infos[c]) : infos[c][i] # None /\ scheduling_only(infos[c][i])
        /\ built[c] # <<>>
        /\ result[c] # {}

\* the built skills whose registration was skipped
SkippedAdds(c) == Range(built[c]) \ ToolNames(result[c])

\* C15: two completed listing cycles for the same tenant that did not run
\* concurrently with another cycle and were given the same request, the same
\* upstream skill list and the same fetch and registration outcomes return
\* the same tool set, whatever the tool table held before each of them.
C15_Idempotent ==
    \A c, d \in Calls :
        (/\ c # d
         /\ pc[c] = "done" /\ pc[d] = "done"
         /\ ~overlap[c] /\ ~overlap[d]
         /\ req[c].tenant \in Tenants
         /\ req[c] = req[d]
         /\ ids[c] = ids[d] /\ infos[c] = infos[d]
         /\ SkippedAdds(c) = SkippedAdds(d))
            => result[c] = result[d]

\* two cycles for tenant B returned the same non-empty tool set although a
\* cycle in between had left the table to another tenant or the table is
\* still the one the second cycle rebuilt
C15_Witness ==
    /\ pc[1] = "done" /\ pc[2] = "done"
    /\ ~overlap[1] /\ ~overlap[2]
    /\ req[1] = req[2] /\ req[1].tenant = "B"
    /\ ids[1] = ids[2] /\ infos[1] = infos[2]
    /\ result[1] # {} /\ result[1] = result[2]
    /\ registry = result[2]

NumAdds(tr) == Cardinality({i \in DOMAIN tr : tr[i] = "add"})
Completes(c) == pc[c] # "done" /\ pc'[c] = "done"
\* every fetch of the completing cycle succeeded and every built skill was added
AllBuilt(c, up) ==
    /\ Len(infos'[c]) = Len(up)
    /\ \A i \in DOMAIN infos'[c] : infos'[c][i] # None
    /\ NumAdds(trace'[c]) = Len(built'[c])

\* C16: a listing cycle that did not run concurrently with another reads the
\* tenant's skill list from the upstream platform when the call starts and
\* returns tools of that list only; when every fetch and registration
\* succeeded the listing is exactly the non-scheduling skills the upstream
\* held at the time of the call, whatever an earlier call saw.
C16_FreshUpstream ==
    [][\A c \in Calls :
          /\ (pc[c] = "idle" /\ pc'[c] = "fetching")
                => ids'[c] = copilots[req'[c].tenant]
          /\ (Completes(c) /\ req'[c].tenant \in Tenants /\ ~overlap'[c])
                => LET up == IF pc[c] = "fetching" THEN ids[c]
                             ELSE copilots[req'[c].tenant]
                       fresh == {x \in Range(up) : ~scheduling_only(x)}
                   IN  /\ ToolNames(result'[c]) \subseteq fresh
                       /\ AllBuilt(c, up) => ToolNames(result'[c]) = fresh]_vars

\* the upstream list of a tenant changed between two calls: the earlier
\* listing shows the old skills, the later one exactly the new ones
C16_Witness ==
    \E c, d \in Calls :
        /\ nchg = 1
        /\ pc[c] = "done" /\ pc[d] = "done" /\ ~overlap[c] /\ ~overlap[d]
        /\ req[c].tenant \in Tenants /\ req[c].tenant = req[d].tenant
        /\ result[c] # result[d] /\ result[d] # {}
        /\ ids[c] = copilots[req[c].tenant] /\ ids[d] # ids[c]
        /\ ToolNames(result[c]) = {x \in Range(copilots[req[c].tenant]) : ~scheduling_only(x)}

\* the positions of the ids whose fetch succeeded with a skill that is built
FetchedOk(c) ==
    {i \in DOMAIN ids[c] : infos[c][i] # None /\ ~scheduling_only(ids[c][i])}

C18_ListingNeverRaises == \A c \in Calls : pc[c] # "raised"

\* ------------------------------------------------------------------------
\* Claims about a tool invocation (specification SpecTool)
\* ------------------------------------------------------------------------
Finished == tpc \in {"returned", "raised"}
\* no exception was raised inside the try block
NoException == cause = "none"
RemoteAnswered == remoteCalls # <<>> /\ sres.data # "none" /\ ~sres.raised

MissingRequired ==
    {params[i].name : i \in {j \in DOMAIN params :
                                params[j].required /\ kwargs[params[j].name] = Absent}}
OutOfSet ==
    {params[i].name : i \in {j \in DOMAIN params :
                                params[j].constrained /\ kwargs[params[j].name] \in Values \ Allowed}}

\* C6: an invocation that lacks a required parameter ends with a validation
\* failure naming a missing required parameter, and issues no remote call.
C6_MissingRequiredRejected ==
    (Finished /\ MissingRequired # {})
        => /\ tresult.kind = "validation"
           /\ tresult.detail \in MissingRequired
           /\ remoteCalls = <<>>

\* C7: an invocation that supplies a value outside a parameter's constrained
\* set issues no remote call and, when it returns without an exception having
\* been handled, returns a validation failure.
C7_ConstrainedValueRejected ==
    OutOfSet # {} =>
        /\ remoteCalls = <<>>
        /\ (tpc = "returned" /\ NoException)
              => (tresult.kind = "validation" /\ tresult.detail \in OutOfSet \cup MissingRequired)

\* C8: no invocation ends by raising into the protocol layer.
C8_NeverPropagates == tpc # "raised"

\* C9: when the remote result has success == false the invocation returns the
\* remote error field and raises nothing.
C9_RemoteFailureReturned ==
    (Finished /\ RemoteAnswered /\ ~sres.success)
        => tresult = [kind |-> "value", detail |-> "skill_result.error"]

\* C10: when the remote result has success == true and no notice failed,
\* the invocation returns data.final_message if data has that
\* field and the literal no-data message otherwise.
C10_SuccessValue ==
    (tpc = "returned" /\ RemoteAnswered /\ sres.success /\ NoException)
        => tresult = [kind |-> "value",
                      detail |-> IF sres.data = "with_final_message"
                                 THEN "final_message"
                                 ELSE "No data returned from skill"]

ResolutionFailed == cause \in {"no_client", "no_connect", "no_copilot"}

\* C11: an invocation whose client cannot be created or does not pass the
\* probe, or whose tenant id cannot be resolved, ends by returning the
\* configuration error message and has issued no remote call.
C11_UnresolvedIsConfigurationError ==
    (Finished /\ ResolutionFailed)
        => /\ tresult = [kind |-> "error_msg", detail |-> cause]
           /\ remoteCalls = <<>>

\* the supplied arguments that are not None
Supplied ==
    LET keep == {q \in DOMAIN kwargs : kwargs[q] \notin {Absent, None}}
    IN  [q \in keep |-> kwargs[q]]
\* the client was created, passed the probe and a tenant id was resolved
ResolutionSucceeded ==
    /\ tctx.token /\ tctx.connect /\ actual_copilot_id(tctx) # NoTenant
    /\ \E i \in DOMAIN notices : notices[i] = "connecting"

\* C12: an invocation issues at most one remote call, and when validation and
\* the client and tenant resolution have succeeded it issues exactly one, for
\* the resolved tenant id and with exactly the supplied non-None arguments.
C12_ExactlyOneRemoteCall ==
    /\ Len(remoteCalls) <= 1
    /\ (Finished /\ MissingRequired = {} /\ ResolutionSucceeded)
          => remoteCalls = <<[copilot |-> actual_copilot_id(tctx), args |-> Supplied]>>

\* C13: neither the mapping forwarded to the remote call nor the mapping the
\* validator returns has a key whose value is None.
C13_NoneDropped ==
    /\ \A q \in DOMAIN processed : processed[q] # None
    /\ \A i \in DOMAIN remoteCalls :
          \A q \in DOMAIN remoteCalls[i].args : remoteCalls[i].args[q] # None
    /\ \A q \in DOMAIN validated.args : validated.args[q] # Scalar(None)

\* a remote call was issued for an invocation that supplied None for one
\* parameter and a value for another
C13_Witness ==
    /\ remoteCalls # <<>>
    /\ \E q \in DOMAIN kwargs : kwargs[q] = None
    /\ \E q \in DOMAIN kwargs : kwargs[q] \in Values /\ q \in DOMAIN remoteCalls[1].args
    /\ \A q \in DOMAIN kwargs : kwargs[q] = None => q \notin DOMAIN remoteCalls[1].args

ValidatorDone == tpc \in {"validator_returned", "validator_raised"}
\* the declared parameters that were handed a value other than None
Given ==
    {i \in DOMAIN vparams : vargs[vparams[i].name] \notin {Scalar(Absent), Scalar(None)}}
\* the elements of a supplied value, a scalar counting as its one element
Elements(v) == {v.items[k] : k \in DOMAIN v.items}
\* the constrained parameters whose supplied value the permitted set refuses
Refused ==
    {i \in Given :
        /\ vparams[i].constrained
        /\ IF vparams[i].is_multi
           THEN \E e \in Elements(vargs[vparams[i].name]) : e \notin Allowed
           ELSE vargs[vparams[i].name].is_list
                \/ vargs[vparams[i].name].items[1] \notin Allowed}

\* C14: the validator rejects the arguments for a constrained parameter
\* exactly when, for a multi parameter, some element of the supplied value
\* (a scalar being its own single element) is outside the permitted set, or,
\* for a non-multi parameter, the value itself is not a member; on success the
\* value validated for a multi parameter is a list of the supplied elements
\* and the value for a non-multi parameter is the supplied value.
C14_ConstrainedValidation ==
    ValidatorDone =>
        /\ (validated.raised /\ validated.error \in {"invalid_values", "invalid_value"})
              => \E i \in Refused :
                    /\ vparams[i].name = validated.param
                    /\ vparams[i].is_multi <=> validated.error = "invalid_values"
        /\ Refused # {} => validated.raised
        /\ ~validated.raised =>
              \A i \in Given :
                 LET v == vargs[vparams[i].name]
                     w == validated.args[vparams[i].name]
                 IN  IF vparams[i].is_multi
                     THEN /\ w.is_list
                          /\ w.items = (IF v.is_list THEN v.items ELSE <<v.items[1]>>)
                          /\ vparams[i].constrained => Elements(w) \subseteq Allowed
                     ELSE /\ w = v
                          /\ vparams[i].constrained => (~w.is_list /\ w.items[1] \in Allowed)

\* the validator accepted a scalar for a constrained multi parameter and
\* returned it as a one-element list, next to a non-multi constrained scalar
C14_Witness ==
    /\ tpc = "validator_returned"
    /\ \E i \in Given :
          /\ vparams[i].constrained /\ vparams[i].is_multi
          /\ ~vargs[vparams[i].name].is_list
          /\ validated.args[vparams[i].name] = List(<<"west">>)
    /\ \E i \in Given :
          /\ vparams[i].constrained /\ ~vparams[i].is_multi
          /\ validated.args[vparams[i].name] = Scalar("west")

\* C19: the tool contract built from a skill has exactly one parameter per
\* parameter the skill declares, in declaration order, with the declared
\* name and required flag.
C19_ContractMatchesDeclaration ==
    tpc = "contract_built" =>
        /\ Len(contract) = Len(declared)
        /\ \A i \in DOMAIN declared :
              /\ contract[i].name = declared[i].name
              /\ contract[i].required = declared[i].required

\* ------------------------------------------------------------------------
\* Claims about startup (specification SpecStartup)
\* ------------------------------------------------------------------------
\* C20: in single-tenant startup a copilot id that does not resolve is not
\* taken for a copilot without skills: the lookup yields None, the process
\* exits with status 1 and never runs, whereas a copilot that resolves with
\* an empty skill list is served with no tools.
C20_UnresolvedCopilotAborts ==
    senv.mode = "local" =>
        /\ scopilot.state = "copilot" => (senv.connect /\ senv.resolves)
        /\ (scopilot.state = "None" \/ (spc = "running" /\ ~senv.resolves))
              => (spc = "exited" /\ sexit = "exit_1" /\ stools = {})
        /\ (spc = "running" /\ senv.skill_ids = <<>>)
              => (scopilot = [state |-> "copilot", skill_ids |-> <<>>]
                  /\ sexit = "none" /\ stools = {})

\* startup with a complete environment and a passing probe was aborted
\* because the configured copilot id did not resolve
C20_Witness ==
    /\ senv.mode = "local" /\ senv.ar_url /\ senv.ar_token /\ senv.copilot_id
    /\ senv.connect /\ ~senv.resolves
    /\ scopilot = NoCopilot
    /\ spc = "exited" /\ sexit = "exit_1"

\* ------------------------------------------------------------------------
\* Claims about client resolution (specification SpecClient)
\* ------------------------------------------------------------------------
\* C21: client resolution yields no client when the request carries no
\* credential or when the connectivity probe does not succeed, so that no
\* metadata fetch and no skill execution is issued for a request whose probe
\* fails.
C21_NoUseWithoutProbe ==
    /\ (lfetched \/ lclient # NoClient) => (lreq.token /\ lreq.connect)
    /\ iran => (ireq.token /\ ireq.connect)
    /\ (ireq # NoHttpRequest /\ ~ireq.token) => iclient = NoClient

\* C27: every upstream client of the multi-tenant regime, the one a listing
\* cycle fetches metadata through and the one a tool invocation runs the
\* skill through, is built with the base URL of the request being served,
\* never with the configured URL nor with the URL of another request.
C27_ClientUrlIsRequestUrl ==
    /\ lclient # NoClient => lclient.url = base_url(lreq)
    /\ iclient # NoClient => iclient.url = base_url(ireq)

\* ------------------------------------------------------------------------
\* Claims about the request extractors (specification SpecExtract)
\* ------------------------------------------------------------------------
\* the authorization headers, under any capitalisation of the name, whose
\* value begins with the exact prefix
BearerHeaders ==
    {i \in DOMAIN bctx.headers :
        /\ bctx.headers[i].name \in {"Authorization", "authorization"}
        /\ Len(bctx.headers[i].value) >= 2
        /\ bctx.headers[i].value[1] = "Bearer" /\ bctx.headers[i].value[2] = " "}

\* C22: bearer extraction returns a credential exactly when the request has
\* an Authorization header, under any capitalisation of the name, whose value
\* starts with the case-sensitive prefix 'Bearer '; the credential is that
\* value without the prefix; in every other case, a missing request or an
\* extraction error included, the result is none.
C22_BearerExtraction ==
    epc = "bearer" =>
        /\ btoken.found <=> (bctx.request = "request" /\ BearerHeaders # {})
        /\ btoken.found =>
              \E i \in BearerHeaders :
                 /\ \A j \in BearerHeaders : i <= j
                 /\ BearerPrefix \o btoken.token = bctx.headers[i].value
        /\ ~btoken.found => btoken = NoToken

\* the credential was taken from a header spelled 'Authorization' that came
\* after a lower-case 'bearer ' header, which was passed over
C22_Witness ==
    /\ epc = "bearer"
    /\ Len(bctx.headers) = 2
    /\ bctx.headers[1] = [name |-> "authorization", value |-> <<"bearer", " ", "tok">>]
    /\ bctx.headers[2].name = "Authorization"
    /\ btoken = Token(<<"tok", " ", "tok">>)

\* what follows the first marker in the path, up to the next '/'
AfterMarker ==
    LET k == CHOOSE i \in Occurrences(upath, Marker) :
                 \A j \in Occurrences(upath, Marker) : i <= j
        rest == SubSeq(upath, k + 3, Len(upath))
        stop == {i \in DOMAIN rest : rest[i] = "/"}
    IN  IF stop = {} THEN rest
        ELSE SubSeq(rest, 1, (CHOOSE i \in stop : \A j \in stop : i <= j) - 1)

Configured ==
    IF senv.mode = "local"
    THEN senv.ar_url /\ senv.ar_token /\ senv.copilot_id /\ senv.connect
    ELSE senv.mode = "remote" /\ senv.ar_url

\* C24: a process launched in single-tenant mode without AR_URL, AR_TOKEN
\* or COPILOT_ID or with a failing probe, in multi-tenant mode without
\* AR_URL, or in an unknown mode never runs the server and ends with exit
\* status 1, as does any process whose server creation fails; in
\* multi-tenant mode with AR_URL set nothing but an error while the server
\* is created ends the process.
C24_FatalStartup ==
    /\ [](spc = "running" => Configured)
    /\ [](spc = "exited" <=> sexit = "exit_1")
    /\ []((spc = "exited" /\ senv.mode = "remote" /\ senv.ar_url)
             => sfail = "create_server")
    /\ ((spc = "validate_environment" /\ ~Configured)
           ~> (spc = "exited" /\ sexit = "exit_1"))

\* every variable was set and the probe failed: the process exited with 1
C24_Witness ==
    /\ senv.mode = "local" /\ senv.ar_url /\ senv.ar_token /\ senv.copilot_id
    /\ ~senv.connect
    /\ spc = "exited" /\ sexit = "exit_1" /\ sfail = "probe"

C26_Annotations ==
    \A t \in registry :
        /\ t.annotations.readOnlyHint = ~scheduling_only(t.name)
        /\ t.annotations.destructiveHint = FALSE
        /\ t.annotations.idempotentHint = TRUE
        /\ t.annotations.openWorldHint = TRUE
        /\ t.annotations.readOnlyHint = TRUE

\* a cycle that fetched a scheduling-only skill has ended and tools are
\* registered
C26_Witness ==
    /\ registry # {}
    /\ \E c \in Calls :
        /\ pc[c] = "done"
        /\ \E i \in DOMAIN infos[c] : infos[c][i] # None /\ scheduling_only(infos[c][i])

\* ------------------------------------------------------------------------
\* Claims about the delayed notification (specification SpecRefresh)
\* ------------------------------------------------------------------------
\* a listing request is answered in this step
ListingReturns == rpc = "idle" /\ rpc' = "returned"

\* a refresh task runs in this step
RefreshRuns == rsleeping' < rsleeping

\* C28: the delayed notification is detached from the listing call that
\* scheduled it: the call returns its listing while the notification it
\* scheduled is still to be sent, and the task, whether it sends, skips or
\* fails, changes neither the listing returned, nor the outcome of the
\* request, nor the tool table.
C28_DetachedNotification ==
    [][/\ (ListingReturns /\ rres'.built # <<>>)
            => /\ rsleeping' = rsleeping + 1
               /\ rnotified' = rnotified
               /\ rres'.out = "done" /\ rres'.listing = registry'
       /\ RefreshRuns
            => /\ rres' = rres
               /\ rpc' = rpc
               /\ registry' = registry]_vars

\* a listing was returned with tools in it, and the notification scheduled by
\* it failed afterwards
C28_Witness ==
    /\ rres.out = "done" /\ rres.listing # {} /\ rres.listing = registry
    /\ rsleeping = 0
    /\ rnotified = "failed"

\* ------------------------------------------------------------------------
\* Claims about the metadata fan-out and fan-in (specification Spec)
\* ------------------------------------------------------------------------
\* the position of skill x in the id list q
Pos(q, x) == CHOOSE i \in DOMAIN q : q[i] = x

\* q lists members of the id list idl in the order idl has them
InIdOrder(q, idl) ==
    /\ Range(q) \subseteq Range(idl)
    /\ \A i, j \in DOMAIN q : i < j => Pos(idl, q[i]) < Pos(idl, q[j])

\* call c passes from its gather to the build in this step
Joins(c) == pc[c] = "fetching" /\ pc'[c] # "fetching"

\* one fetch of call c completes in this step
FetchCompletes(c) == pc[c] = "fetching" /\ pending'[c] # pending[c] /\ ~Joins(c)

\* C29: a fetch cycle has one fetch per skill id of the copilot, each
\* completing once; the skill configs are built only when every fetch has
\* returned or failed; and the configs built are in the order of the
\* copilot's skill ids, whatever the order the fetches completed in.
C29_FanOutFanIn ==
    /\ [](\A c \in Calls :
            /\ pc[c] = "fetching"
                 => /\ DOMAIN infos[c] = DOMAIN ids[c]
                    /\ pending[c] \subseteq DOMAIN ids[c]
                    /\ \A i \in pending[c] : infos[c][i] = None
                    /\ built[c] = <<>>
            /\ (impl = "server" /\ pc[c] = "done" /\ infos[c] # <<>>)
                 => /\ pending[c] = {}
                    /\ InIdOrder(built[c], ids[c])
                    /\ Range(built[c]) =
                         {ids[c][i] : i \in {j \in DOMAIN ids[c] :
                                                infos[c][j] # None
                                                /\ ~scheduling_only(ids[c][j])}})
    /\ [][\A c \in Calls :
            /\ Joins(c) => pending[c] = {}
            /\ FetchCompletes(c)
                 => \E i \in pending[c] :
                      /\ pending'[c] = pending[c] \ {i}
                      /\ \A j \in DOMAIN infos[c] \ {i} : infos'[c][j] = infos[c][j]]_vars

\* a cycle over two skill ids has joined both fetches and built both
\* configs, in the order of the ids
C29_Witness ==
    \E c \in Calls :
        /\ impl = "server" /\ pc[c] = "done"
        /\ Len(ids[c]) = 2
        /\ built[c] = ids[c]

\* ------------------------------------------------------------------------
\* Claims about the skill id field (specification SpecExtract)
\* ------------------------------------------------------------------------
\* C30: the skill id field is normalised before fetching: for an absent or
\* empty field nothing is fetched and the result is empty, for a single
\* identifier exactly that identifier is fetched, and for a list its
\* elements are fetched in order.
C30_SkillIdsNormalised ==
    epc = "skill_ids" =>
        /\ (nfield.kind = "None" \/ (nfield.kind = "str" /\ nfield.scalar = "")
             \/ (nfield.kind = "list" /\ nfield.items = <<>>))
              => (nfetched = <<>> /\ nbuilt = <<>>)
        /\ (nfield.kind = "str" /\ nfield.scalar # "")
              => (Len(nfetched) = 1 /\ nfetched[1] = nfield.scalar)
        /\ nfield.kind = "list" => nfetched = nfield.items

\* the field held the single identifier s1: it was fetched and its config
\* built
C30_Witness ==
    /\ epc = "skill_ids"
    /\ nfield.kind = "str" /\ nfield.scalar = "s1"
    /\ nfetched = <<"s1">>
    /\ nbuilt = <<"s1">>

\* ------------------------------------------------------------------------
\* More claims about the tool invocation (specification SpecTool)
\* ------------------------------------------------------------------------
\* the positions of notice k among the notices emitted so far
NoticeAt(k) == {i \in DOMAIN notices : notices[i] = k}

TerminalNotices == NoticeAt("success") \cup NoticeAt("error")

\* the invocation has ended, with a value or with an exception
Ended == tpc \in {"returned", "raised"}

\* C31: the notices of an invocation come in a fixed order: "executing"
\* before every other notice, "connecting" before the client is created,
\* "running" only with a connected client and a resolved tenant id and
\* before the remote call, and an invocation that has ended has emitted
\* exactly one terminal notice, as its last notice: "success" only for a
\* remote result with success = TRUE, "error" on every failure path.
C31_NoticeOrder ==
    /\ NoticeAt("executing") # {} => notices[1] = "executing"
    /\ tpc \in {"connect", "info_running", "run", "info_success", "error_failed"}
         => NoticeAt("connecting") # {}
    /\ NoticeAt("running") # {}
         => /\ tctx.token /\ tctx.connect /\ actual_copilot_id(tctx) # NoTenant
            /\ \A i \in NoticeAt("running"), j \in NoticeAt("connecting") : j < i
    /\ remoteCalls # <<>> => NoticeAt("running") # {}
    /\ NoticeAt("success") # {} => (remoteCalls # <<>> /\ ~sres.raised /\ sres.success)
    /\ ~Ended => TerminalNotices = {}
    /\ Ended => TerminalNotices = {Len(notices)}
    /\ (Ended /\ tresult.kind # "value") => NoticeAt("error") # {}

\* ------------------------------------------------------------------------
\* Claims about the end of a registration cycle (specification SpecFair)
\* ------------------------------------------------------------------------
\* every call that waits for its fetches ends, with a listing or an exception
CycleTerminates ==
    \A c \in Calls : (pc[c] = "fetching") ~> (pc[c] \in {"done", "raised"})

\* C32: every upstream call returning or raising, a listing call that has
\* started a registration cycle eventually returns a listing, whether the
\* cycle completed or failed.
C32_CycleReturnsListing ==
    \A c \in Calls : (pc[c] # "idle") ~> (pc[c] = "done")

\* C33: the remote call is issued only when every required parameter of
\* the skill has a value other than None in the arguments forwarded; a
\* required parameter supplied as None is refused like a missing one.
C33_RequiredForwarded ==
    \A k \in DOMAIN remoteCalls :
        \A i \in DOMAIN params :
            params[i].required
              => /\ params[i].name \in DOMAIN remoteCalls[k].args
                 /\ remoteCalls[k].args[params[i].name] # None

\* C34: the tenant id handed to the remote call is the id bound into the
\* callable when there is one, whatever id the invoking request's path
\* carries, and otherwise the id of the invoking request's path.
C34_TenantBinding ==
    \A k \in DOMAIN remoteCalls :
        /\ tctx.static # NoTenant => remoteCalls[k].copilot = tctx.static
        /\ tctx.static = NoTenant
             => (tctx.path # NoTenant /\ remoteCalls[k].copilot = tctx.path)

\* a callable bound to one tenant was invoked under the path of another and
\* the remote call went to the bound tenant
C34_Witness ==
    /\ remoteCalls # <<>>
    /\ tctx.static # NoTenant /\ tctx.path # NoTenant /\ tctx.static # tctx.path
    /\ remoteCalls[1].copilot = tctx.static

\* ------------------------------------------------------------------------
\* Claims about the startup batch (specification SpecStartup)
\* ------------------------------------------------------------------------
\* C35: registering a batch of skills is failure-isolated: a skill whose
\* tool cannot be built or added is skipped, every other skill of the batch
\* is registered, and the batch never raises: a failing skill does not
\* keep the server from running.
C35_BatchIsolated ==
    /\ (spc = "running" /\ senv.mode = "local")
          => stools = Range(sbatch.built) \ sbatch.bad
    /\ sbatch.bad # {} => (spc = "running" /\ sfail = "none")

\* the first skill of a batch of two failed and the second is registered
C35_Witness ==
    /\ spc = "running" /\ senv.mode = "local"
    /\ Len(sbatch.built) = 2
    /\ sbatch.bad = {sbatch.built[1]}
    /\ stools = {sbatch.built[2]}

\* ------------------------------------------------------------------------
\* Claims about token verification (specification SpecVerify)
\* ------------------------------------------------------------------------
\* the audiences the introspection answer names
AudienceSet(i) ==
    IF i.aud.kind \in {"str", "list"} THEN Range(i.aud.items) ELSE {}

\* C36: a token is accepted only if the endpoint passes the URL guard, the
\* request raised nothing, the answer has status 200 and active = true
\* and, under resource validation, the base URL is known and some audience
\* of the token matches this server; in every other case the result is
\* None.
C36_TokenAccepted ==
    access # "none" =>
        /\ access \in {"AccessToken", "None"}
        /\ access = "AccessToken" =>
              /\ safe_endpoint(introspection)
              /\ ~introspection.raises
              /\ introspection.status_code = 200
              /\ introspection.active = "true"
              /\ introspection.validate_resource =>
                    /\ introspection.base_known
                    /\ \E a \in AudienceSet(introspection) :
                          check_resource_allowed(introspection.base_url, a)

\* under resource validation a token whose second audience is this server
\* was accepted
C36_Witness ==
    /\ access = "AccessToken"
    /\ introspection.validate_resource
    /\ introspection.aud.kind = "list" /\ Len(introspection.aud.items) = 2
    /\ ~check_resource_allowed(introspection.base_url, introspection.aud.items[1])
    /\ check_resource_allowed(introspection.base_url, introspection.aud.items[2])

\* ------------------------------------------------------------------------
\* Claims about the copilot selector (specification SpecSelector)
\* ------------------------------------------------------------------------
\* C37: after any sequence of keys the highlighted index is 0 when the
\* filtered list is empty and otherwise an index of the filtered list, so
\* that Enter never looks outside the filtered list.
C37_IndexInFilteredList ==
    IF state.filtered_indices = <<>>
    THEN state.current_index = 0
    ELSE /\ state.current_index \in 0..(Len(state.filtered_indices) - 1)
         /\ state.current_index + 1 \in DOMAIN state.filtered_indices

\* the last row of three was highlighted and a query that matches nothing
\* was typed
C37_Witness ==
    /\ returned.from = "running"
    /\ copilot_count = 3
    /\ state.query # <<>>
    /\ state.filtered_indices = <<>>
    /\ state.current_index = 0

\* the copilot under the highlight
Highlighted == state.filtered_indices[state.current_index + 1]

SelectionChanges == state'.selected_indices # state.selected_indices

\* C38: Enter in the main screen toggles the membership of exactly the
\* highlighted copilot in the selected set; no other key, in the main
\* screen or in the confirm dialog, changes the selected set, so the
\* selected copilots a search hides stay selected.
C38_SelectionFrame ==
    [][/\ SelectionChanges
            => /\ KeyEnter
               /\ ~state.confirm_dialog /\ state.filtered_indices # <<>>
       /\ (KeyEnter /\ ~state.confirm_dialog /\ state.filtered_indices # <<>>)
            => /\ Highlighted \in state'.selected_indices
                    <=> Highlighted \notin state.selected_indices
               /\ state'.selected_indices \ {Highlighted}
                    = state.selected_indices \ {Highlighted}
               /\ state' = [state EXCEPT !.selected_indices = state'.selected_indices]]_vars

\* a selected copilot is hidden by the query and still selected
C38_Witness ==
    /\ returned.from = "running"
    /\ state.query # <<>>
    /\ \E i \in state.selected_indices :
          \A k \in DOMAIN state.filtered_indices : state.filtered_indices[k] # i

\* C39: the selector returns only from the confirm dialog, or with an
\* empty result on key code 3 in the main screen; Escape opens the dialog
\* with "save" preselected and, in the dialog, leads back to the main
\* screen; Enter in the dialog returns the selected copilots in ascending
\* index order, each once, when "save" is chosen and something is
\* selected, and an empty result otherwise.
C39_ConfirmProtocol ==
    /\ [](/\ returned.from \in {"not_started", "running", "confirm_dialog", "ctrl_c"}
          /\ (returned.from \in {"not_started", "running"}) => (returned.value = <<>>)
          /\ (returned.from = "ctrl_c")
               => (returned.value = <<>> /\ ~state.confirm_dialog)
          /\ (returned.from = "confirm_dialog")
               => /\ state.confirm_dialog
                  /\ IF state.confirm_save /\ state.selected_indices # {}
                     THEN /\ Range(returned.value) = state.selected_indices
                          /\ \A i, j \in DOMAIN returned.value :
                                (i < j) => (returned.value[i] < returned.value[j])
                     ELSE returned.value = <<>>)
    /\ [][/\ KeyEscape
                => /\ state'.confirm_dialog = ~state.confirm_dialog
                   /\ (state'.confirm_dialog => state'.confirm_save)
                   /\ returned' = returned
          /\ (state'.confirm_dialog # state.confirm_dialog) => KeyEscape]_vars

\* the first and the third copilot were selected and saved from the dialog
C39_Witness ==
    /\ returned.from = "confirm_dialog"
    /\ state.confirm_save
    /\ returned.value = <<0, 2>>

====
